---- MODULE Spec2Model ----
(***************************************************************************)
(* A model of the LLM session engine of mirumoji_open_api                  *)
(* (src/processing/gpt_wrapper.py, class GptModel): one session object,    *)
(* its request, stream_request and new_session operations, and the         *)
(* provider it calls.                                                      *)
(*                                                                         *)
(* Python lists that the code shares by reference (inputs, outputs,        *)
(* requests_info: new_session stores the list objects themselves in        *)
(* sessions_info) are modelled as objects of a heap; the attributes hold   *)
(* references (indices into heap).  None is the empty set, an int n is {n}.*)
(* Prices are exact, in units of 5*10^-8 dollar: the eight per-million     *)
(* prices of pricing_dict are whole multiples of 0.05 dollar, and a price  *)
(* per million tokens in units of 0.05 dollar is the price per token in    *)
(* units of 5*10^-8 dollar.                                                *)
(*                                                                         *)
(* Spec is the session alone.  SpecPrice adds direct calls of the static   *)
(* method response_price to a short session.  SpecPipeline is the subtitle *)
(* pipeline of src/processing/whisper_wrapper.py (transcribe_to_srt and    *)
(* gpt_fix_srt, which makes a session of its own for its one request); a   *)
(* subtitle text is the sequence of its lines.                             *)
(***************************************************************************)
EXTENDS Integers, Sequences, FiniteSets, TLC

\* ------------------------------------------------------------------ bounds

\* Operations (request, stream_request, new_session) called on the session.
MaxCalls == 3
\* The max_context argument of the constructor (window_token_limit).
MaxContext == 3
\* stream_request calls among them.
MaxStreams == 1

\* Calls on the session in SpecPrice.
MaxSessionCalls == 1
\* Token counts given to response_price, besides a million.
MaxTokens == 2
\* Segments the speech model returns for an audio file.
MaxSegments == 2

\* Invocations (requests to the routes) in progress at the same time.
MaxInvocations == 2

\* Chunks the provider delivers to one streamed chat.
MaxChunks == 2

\* 8k chunks a task writes to its output file.
MaxFileChunks == 2

\* Keepalive intervals that pass while a task is still running.
MaxKeepalives == 2

\* Prompts the caller submits.
Prompts == {"p1", "p2"}

\* --------------------------------------------------------- class constants

\* The registry with a model that has no entry in pricing_dict.
model_versions_unpriced == {"gpt-4.1", "gpt-4o-mini", "gpt-4o", "gpt-4.1-mini", "gpt-4"}

model_versions == {"gpt-4.1", "gpt-4o-mini", "gpt-4o", "gpt-4.1-mini"}

\* Per 1 million tokens, in units of 0.05 dollar (0.150 is 3, 10 is 200).
pricing_dict ==
    ("gpt-4o-mini" :> [input |-> 3, output |-> 12])
    @@ ("gpt-4.1" :> [input |-> 40, output |-> 160])
    @@ ("gpt-4o" :> [input |-> 50, output |-> 200])
    @@ ("gpt-4.1-mini" :> [input |-> 8, output |-> 32])

\* 10**6, the number of tokens the prices of pricing_dict are for.
Million == 1000000

finish_reason_code_dict ==
    [c \in 0..4 |->
        CASE c = 0 -> "Success,Complete Message"
          [] c = 1 -> "Token Limit or parameter \"max_token\" exceeded,Incomplete Message"
          [] c = 2 -> "The model decided to call a function,Incomplete Message"
          [] c = 3 -> "Content flagged and stopped by model's content filter,Incomplete Message"
          [] c = 4 -> "API Response is still in progress,Incomplete Message"]

\* ------------------------------------------------------------------- None

None == {}
Some(n) == {n}
IsNone(x) == x = {}
Val(x) == CHOOSE n \in x : TRUE

\* --------------------------------------------------------------- provider

\* What chat.completions.create returns (or that it raised): the text, the
\* usage and the finish condition.  The usage is a small reply or one that
\* fills the window; "tool_calls" is a finish condition process_output does
\* not know.
ProviderReplies ==
    { [content |-> "r1", prompt_tokens |-> 1, completion_tokens |-> 1,
       total_tokens |-> 2, finish_reason |-> "stop"],
      [content |-> "r2", prompt_tokens |-> MaxContext - 1, completion_tokens |-> 1,
       total_tokens |-> MaxContext, finish_reason |-> "length"],
      [content |-> "r1", prompt_tokens |-> MaxContext - 1, completion_tokens |-> 1,
       total_tokens |-> MaxContext, finish_reason |-> "function_call"],
      [content |-> "r2", prompt_tokens |-> 1, completion_tokens |-> 1,
       total_tokens |-> 2, finish_reason |-> "content_filter"],
      [content |-> "r1", prompt_tokens |-> 1, completion_tokens |-> 1,
       total_tokens |-> 2, finish_reason |-> "null"],
      [content |-> "r2", prompt_tokens |-> 1, completion_tokens |-> 1,
       total_tokens |-> 2, finish_reason |-> "tool_calls"] }

\* What chat.completions.create(stream=True) delivers: the content of each
\* chunk in order; "" is a chunk with no content (None or empty).
ProviderStreams ==
    { <<>>, <<"a">>, <<"a", "b">>, <<"b", "", "a">> }

\* ------------------------------------------------------------------ state

VARIABLES
    model,                  \* self.model
    sys_msg,                \* self.sys_msg
    window_token_limit,     \* self.window_token_limit
    messages,               \* self.messages
    heap,                   \* the list objects inputs/outputs/requests_info refer to
    inputs,                 \* self.inputs (a reference)
    outputs,                \* self.outputs (a reference)
    requests_info,          \* self.requests_info (a reference)
    total_price,            \* self.total_price
    total_tokens,           \* self.total_tokens
    input_tokens,           \* self.input_tokens
    output_tokens,          \* self.output_tokens
    request_count,          \* self.request_count
    sessions_info,          \* self.sessions_info
    text_finishin_reasons,  \* self.text_finishin_reasons
    stream,                 \* the generator of a stream_request in progress
    last,                   \* the last call: what was called, how it ended, what the provider was sent
    ncalls,                 \* calls made so far
    nstreams,               \* stream_request calls made so far
    class_attrs,            \* GptModel.model_versions and GptModel.pricing_dict
    price_call,             \* the last call of response_price on its own
    doc,                    \* the subtitle document of one transcription
    bd,                     \* the last request of /gpt/breakdown or /gpt/custom_breakdown
    audio,                  \* the last operation of AudioTools and the files of its directory
    inv,                    \* the invocations in progress and the GptModel objects that exist
    sse,                    \* the generator of sse_gen: its script, its position, what it emitted
    resp,                   \* the response of stream_response_with_task: its task, the file, what it emitted
    pipe                    \* the last call of transcribe_to_srt and the files

vars == <<model, sys_msg, window_token_limit, messages, heap, inputs, outputs,
          requests_info, total_price, total_tokens, input_tokens, output_tokens,
          request_count, sessions_info, text_finishin_reasons, stream, last, ncalls, nstreams,
          class_attrs, price_call, pipe, doc, bd,
          audio,
          inv, sse, resp>>

\* The attributes of the live ConversationState.
session_vars == <<messages, heap, inputs, outputs, requests_info, total_price,
                  total_tokens, input_tokens, output_tokens, request_count,
                  sessions_info, text_finishin_reasons>>

config_vars == <<model, sys_msg, window_token_limit>>

\* What no operation of the session touches.
other_vars == <<class_attrs, price_call, pipe, doc, bd, audio, inv, sse, resp>>

\* ---------------------------------------------------------------- helpers

format_input(message) == [role |-> "user", content |-> message]

\* Mutant: the reply is stored as a user turn.
format_output_as_user(message) == [role |-> "user", content |-> message]

format_output(message) == [role |-> "assistant", content |-> message]

\* response_price reading the prices of the session's model, not of m.
response_price_of_session(m, in_tokens, out_tokens) ==
    IF m \notin class_attrs.model_versions
    THEN [ok |-> FALSE, error |-> "not supported", price |-> 0]
    ELSE IF m \notin DOMAIN class_attrs.pricing_dict
    THEN [ok |-> FALSE, error |-> "KeyError", price |-> 0]
    ELSE [ok |-> TRUE, error |-> "",
          price |-> in_tokens * class_attrs.pricing_dict[model].input
                    + out_tokens * class_attrs.pricing_dict[model].output]

\* response_price with the two prices of the model taken for each other.
response_price_swapped(m, in_tokens, out_tokens) ==
    IF m \notin class_attrs.model_versions
    THEN [ok |-> FALSE, error |-> "not supported", price |-> 0]
    ELSE IF m \notin DOMAIN class_attrs.pricing_dict
    THEN [ok |-> FALSE, error |-> "KeyError", price |-> 0]
    ELSE [ok |-> TRUE, error |-> "",
          price |-> in_tokens * class_attrs.pricing_dict[m].output
                    + out_tokens * class_attrs.pricing_dict[m].input]

\* response_price: the price, or ok = FALSE where the code raises ("not
\* supported" from its own test, "KeyError" from the lookup in pricing_dict).
response_price(m, in_tokens, out_tokens) ==
    IF m \notin class_attrs.model_versions
    THEN [ok |-> FALSE, error |-> "not supported", price |-> 0]
    ELSE IF m \notin DOMAIN class_attrs.pricing_dict
    THEN [ok |-> FALSE, error |-> "KeyError", price |-> 0]
    ELSE [ok |-> TRUE, error |-> "",
          price |-> in_tokens * class_attrs.pricing_dict[m].input
                    + out_tokens * class_attrs.pricing_dict[m].output]

\* finish_code with 'length' and 'function_call' taken for each other.
finish_code_swapped(finish_reason) ==
    CASE finish_reason = "stop"           -> 0
      [] finish_reason = "length"         -> 2
      [] finish_reason = "function_call"  -> 1
      [] finish_reason = "content_filter" -> 3
      [] finish_reason = "null"           -> 4
      [] OTHER                            -> -1

\* The code of a finish condition, -1 where the code raises.
finish_code(finish_reason) ==
    CASE finish_reason = "stop"           -> 0
      [] finish_reason = "length"         -> 1
      [] finish_reason = "function_call"  -> 2
      [] finish_reason = "content_filter" -> 3
      [] finish_reason = "null"           -> 4
      [] OTHER                            -> -1

\* process_output: the RequestRecord of a reply, or ok = FALSE where the code raises.
process_output(response, m) ==
    LET price == response_price(m, response.prompt_tokens, response.completion_tokens)
        code  == finish_code(response.finish_reason)
    IN  IF ~price.ok \/ code = -1
        THEN [ok |-> FALSE]
        ELSE [ok |-> TRUE,
              output |-> response.content,
              prompt_tokens |-> response.prompt_tokens,
              output_tokens |-> response.completion_tokens,
              total_tokens |-> response.total_tokens,
              finish_reason |-> code,
              price |-> price.price]

RequestRecord(f) ==
    [output |-> f.output, prompt_tokens |-> f.prompt_tokens,
     output_tokens |-> f.output_tokens, total_tokens |-> f.total_tokens,
     finish_reason |-> f.finish_reason, price |-> f.price]

\* Mutant: the ceiling itself is still accepted (> for >=).
context_check_strict(rc, tt, wtl) ==
    IF rc > 0
    THEN IF IsNone(tt) THEN "TypeError"
         ELSE IF Val(tt) > wtl THEN "Max Context Exceeded" ELSE "pass"
    ELSE "pass"

\* The test of request before it calls the provider
\* (self.request_count > 0 and self.total_tokens >= wtl):
\* "TypeError" where Python cannot compare None with an int.
context_check(rc, tt, wtl) ==
    IF rc > 0
    THEN IF IsNone(tt) THEN "TypeError"
         ELSE IF Val(tt) >= wtl THEN "Max Context Exceeded" ELSE "pass"
    ELSE "pass"

\* Mutant: the counter accumulates (+= for =).
token_update_cumulative(old, n) ==
    IF IsNone(old) THEN Some(n) ELSE Some(Val(old) + n)

\* The token counter after a request that returned n.
token_update(old, n) == Some(n)

\* The provider's reply where it gave none.
NoReply == [content |-> "", prompt_tokens |-> 0, completion_tokens |-> 0,
            total_tokens |-> 0, finish_reason |-> "none"]

\* What a call finds: the history, the outputs and request_count before it.
Before == [messages |-> messages, outputs |-> heap[outputs],
           request_count |-> request_count]

NoCall == [op |-> "none", outcome |-> "none", prompt |-> "", response |-> "",
           reached |-> FALSE, sent |-> <<>>, reply |-> NoReply,
           before |-> [messages |-> <<>>, outputs |-> <<>>, request_count |-> 0]]

\* The messages argument being the system message and the latest turn only.
create_messages_latest_turn(msgs) == <<msgs[1], msgs[Len(msgs)]>>

\* The messages argument of chat.completions.create: the history itself.
create_messages(msgs) == msgs

\* The increment put in front of what was received before.
append_text_in_front(full_output, text) == text \o full_output

\* full_output += text
append_text(full_output, text) == full_output \o text

NoPriceCall == [called |-> FALSE, model |-> "", input_tokens |-> 0,
                output_tokens |-> 0, ok |-> FALSE, error |-> "", price |-> 0]

\* A line of a subtitle text: the index of a cue, its times, a line of its
\* content, or the blank line that ends it.
IndexLine(i) == [kind |-> "index", index |-> i, start |-> 0, end |-> 0, text |-> ""]
TimeLine(start, end) == [kind |-> "time", index |-> 0, start |-> start, end |-> end, text |-> ""]
TextLine(text) == [kind |-> "text", index |-> 0, start |-> 0, end |-> 0, text |-> text]
BlankLine == [kind |-> "blank", index |-> 0, start |-> 0, end |-> 0, text |-> ""]

\* What transcribe_to_srt returns: None, a subtitle text, or output_path.
ReturnNone == [kind |-> "None", text |-> <<>>]
ReturnText(text) == [kind |-> "text", text |-> text]
ReturnPath == [kind |-> "output_path", text |-> <<>>]

\* The LLM as gpt_fix_srt meets it: no API key, create raising, or a reply.
LlmReply(content, finish_reason) ==
    [kind |-> "reply",
     reply |-> [content |-> content, prompt_tokens |-> 1, completion_tokens |-> 1,
                total_tokens |-> 2, finish_reason |-> finish_reason]]
LlmNotCalled == [kind |-> "not called", reply |-> LlmReply(None, "none").reply]
LlmNoKey == [kind |-> "no key", reply |-> LlmReply(None, "none").reply]
LlmRaised == [kind |-> "raised", reply |-> LlmReply(None, "none").reply]

\* No file written, no call made.
NoFiles == [nogpt |-> None, output |-> None]
NoPipe == [called |-> FALSE, fix_with_chat_gpt |-> FALSE, string_result |-> FALSE,
           speech |-> [kind |-> "not called", yielded |-> 0], raw |-> None, llm |-> LlmNotCalled, llm_calls |-> 0, result |-> ReturnNone,
           files |-> NoFiles]

\* No subtitle document assembled yet.
NoDoc == [op |-> "none", segments |-> <<>>, subtitles |-> <<>>, text |-> <<>>,
          parsed |-> [ok |-> FALSE, subs |-> <<>>]]

\* What an operation of AudioTools or a subprocess hands back.
Returned(kind, returncode) == [kind |-> kind, returncode |-> returncode]

\* No operation of AudioTools called yet, and an empty working directory.
NoAudio == [op |-> "none", capture_output |-> FALSE, check |-> FALSE, hide_and_log |-> FALSE,
            use_nvenc |-> FALSE, input_ok |-> TRUE, commands |-> <<>>, returned |-> Returned("None", 0),
            logged_error |-> FALSE, transcribed |-> FALSE, files |-> {}]

\* No breakdown requested yet.
NoBreakdown == [called |-> FALSE, op |-> "none", sentence |-> <<>>, key |-> FALSE,
                attempts |-> <<>>, status |-> 0,
                body |-> [sentence |-> <<>>, gpt_explanation |-> None]]

\* The default gpt_version of FWhisperWrapper.
gpt_version == "gpt-4.1"

\* The default version of GptExplainService.
explainer_version == "gpt-4.1-mini"

\* The process after start-up: the services exist, no invocation has arrived.
\* sessions are the places a GptModel can be at: 0 is GptExplainService.model,
\* built with the service; 2(i-1)+1 and 2(i-1)+2 are the objects invocation i
\* can build in its first and second attempt, which do not exist yet
\* (constructed_by -1).
NoInvocations ==
    [sessions |-> [a \in 0..(2 * MaxInvocations) |->
                      IF a = 0
                      THEN [constructed_by |-> 0,
                            messages |-> <<[role |-> "system", content |-> "explain"]>>,
                            request_count |-> 0, total_tokens |-> None]
                      ELSE [constructed_by |-> -1, messages |-> <<>>, request_count |-> 0,
                            total_tokens |-> None]],
     transcriber |-> [gpt_version |-> gpt_version, gpt_sys_msg |-> "fix srt"],
     explainer |-> [version |-> explainer_version, sys_msg |-> "explain"],
     procs |-> [i \in 1..MaxInvocations |->
                   [kind |-> "none", pc |-> "idle", attempt |-> 0, session |-> -1,
                    requests |-> <<>>]]]

\* sse_gen not called yet.
NoSse == [pc |-> "idle", construct_ok |-> TRUE, chunks |-> <<>>, raise_at |-> -1,
          consumed |-> 0, delivered |-> <<>>, emitted |-> <<>>]

\* stream_response_with_task not called yet; nothing at path.
NoResponse == [pc |-> "idle", task |-> "none", writes |-> 0, raises |-> FALSE,
               file |-> <<>>, position |-> 0, emitted |-> <<>>]

IdleStream == [state |-> "idle", pending |-> <<>>, full_output |-> "", yielded |-> <<>>]

\* ------------------------------------------------------------------- Init

Init ==
    /\ model \in model_versions
    /\ sys_msg = [role |-> "system", content |-> "You are a helpful assistant."]
    /\ window_token_limit = MaxContext
    /\ messages = <<sys_msg>>
    /\ heap = << <<>>, <<>>, <<>> >>
    /\ inputs = 1
    /\ outputs = 2
    /\ requests_info = 3
    /\ total_price = 0
    /\ total_tokens = None
    /\ input_tokens = None
    /\ request_count = 0
    /\ output_tokens = None
    /\ sessions_info = <<>>
    /\ text_finishin_reasons = <<>>
    /\ stream = IdleStream
    /\ last = NoCall
    /\ ncalls = 0
    /\ nstreams = 0
    /\ class_attrs = [model_versions |-> model_versions, pricing_dict |-> pricing_dict]
    /\ price_call = NoPriceCall
    /\ pipe = NoPipe
    /\ doc = NoDoc
    /\ bd = NoBreakdown
    /\ resp = NoResponse
    /\ sse = NoSse
    /\ inv = NoInvocations
    /\ audio = NoAudio

\* ---------------------------------------------------------------- request

\* Mutant: the context test is made before the prompt is stored, so that a
\* rejected request leaves inputs and messages as they were.
request_checking_first(prompt) ==
    /\ stream.state = "idle"
    /\ ncalls < MaxCalls
    /\ ncalls' = ncalls + 1
    /\ UNCHANGED <<config_vars, other_vars, stream, nstreams, inputs, outputs, requests_info,
                   sessions_info>>
    /\ LET heap1 == [heap EXCEPT ![inputs] = Append(@, prompt)]
           msgs  == Append(messages, format_input(prompt))
           check == context_check(request_count, total_tokens, window_token_limit)
           raised(outcome, reached, reply) ==
               /\ heap' = IF reached THEN heap1 ELSE heap
               /\ messages' = IF reached THEN msgs ELSE messages
               /\ UNCHANGED <<total_price, total_tokens, input_tokens, output_tokens,
                              request_count, text_finishin_reasons>>
               /\ last' = [op |-> "request", outcome |-> outcome, prompt |-> prompt,
                           response |-> "", reached |-> reached,
                           sent |-> IF reached THEN create_messages(msgs) ELSE <<>>,
                           reply |-> reply, before |-> Before]
       IN  IF check # "pass"
           THEN raised(check, FALSE, NoReply)
           ELSE \/ raised("Error Requesting", TRUE, NoReply)
                \/ \E result \in ProviderReplies :
                     LET f_result == process_output(result, model)
                     IN  IF ~f_result.ok
                         THEN raised("Error Requesting", TRUE, result)
                         ELSE /\ heap' = [heap1 EXCEPT
                                    ![requests_info] = Append(@, RequestRecord(f_result)),
                                    ![outputs] = Append(@, f_result.output)]
                              /\ messages' = Append(msgs, format_output(f_result.output))
                              /\ input_tokens' = token_update(input_tokens, f_result.prompt_tokens)
                              /\ output_tokens' = token_update(output_tokens, f_result.output_tokens)
                              /\ total_tokens' = token_update(total_tokens, f_result.total_tokens)
                              /\ total_price' = total_price + f_result.price
                              /\ request_count' = request_count + 1
                              /\ text_finishin_reasons' =
                                    Append(text_finishin_reasons,
                                           finish_reason_code_dict[f_result.finish_reason])
                              /\ last' = [op |-> "request", outcome |-> "ok",
                                          prompt |-> prompt, response |-> f_result.output,
                                          reached |-> TRUE,
                                          sent |-> create_messages(msgs),
                                          reply |-> result, before |-> Before]

\* request(prompt), whole: the prompt is stored, the context test made, the
\* provider called and its reply processed and committed.
request(prompt) ==
    /\ stream.state = "idle"
    /\ ncalls < MaxCalls
    /\ ncalls' = ncalls + 1
    /\ UNCHANGED <<config_vars, other_vars, stream, nstreams, inputs, outputs, requests_info,
                   sessions_info>>
    /\ LET heap1 == [heap EXCEPT ![inputs] = Append(@, prompt)]
           msgs  == Append(messages, format_input(prompt))
           check == context_check(request_count, total_tokens, window_token_limit)
           raised(outcome, reached, reply) ==
               /\ heap' = heap1
               /\ messages' = msgs
               /\ UNCHANGED <<total_price, total_tokens, input_tokens, output_tokens,
                              request_count, text_finishin_reasons>>
               /\ last' = [op |-> "request", outcome |-> outcome, prompt |-> prompt,
                           response |-> "", reached |-> reached,
                           sent |-> IF reached THEN create_messages(msgs) ELSE <<>>,
                           reply |-> reply, before |-> Before]
       IN  IF check # "pass"
           THEN raised(check, FALSE, NoReply)
           ELSE \/ raised("Error Requesting", TRUE, NoReply)       \* create raised
                \/ \E result \in ProviderReplies :
                     LET f_result == process_output(result, model)
                     IN  IF ~f_result.ok
                         THEN raised("Error Requesting", TRUE, result)
                         ELSE /\ heap' = [heap1 EXCEPT
                                    ![requests_info] = Append(@, RequestRecord(f_result)),
                                    ![outputs] = Append(@, f_result.output)]
                              /\ messages' = Append(msgs, format_output(f_result.output))
                              /\ input_tokens' = token_update(input_tokens, f_result.prompt_tokens)
                              /\ output_tokens' = token_update(output_tokens, f_result.output_tokens)
                              /\ total_tokens' = token_update(total_tokens, f_result.total_tokens)
                              /\ total_price' = total_price + f_result.price
                              /\ request_count' = request_count + 1
                              /\ text_finishin_reasons' =
                                    Append(text_finishin_reasons,
                                           finish_reason_code_dict[f_result.finish_reason])
                              /\ last' = [op |-> "request", outcome |-> "ok",
                                          prompt |-> prompt, response |-> f_result.output,
                                          reached |-> TRUE,
                                          sent |-> create_messages(msgs),
                                          reply |-> result, before |-> Before]

Request == \E prompt \in Prompts : request(prompt)

\* --------------------------------------------------------- stream_request

\* stream_request(prompt) up to the provider's answer to create(stream=True):
\* the prompt is stored and the provider called with the history.
stream_request(prompt) ==
    /\ stream.state = "idle"
    /\ ncalls < MaxCalls
    /\ nstreams < MaxStreams
    /\ ncalls' = ncalls + 1
    /\ nstreams' = nstreams + 1
    /\ heap' = [heap EXCEPT ![inputs] = Append(@, prompt)]
    /\ messages' = Append(messages, format_input(prompt))
    /\ UNCHANGED <<config_vars, other_vars, inputs, outputs, requests_info, total_price, total_tokens,
                   input_tokens, output_tokens, request_count, sessions_info,
                   text_finishin_reasons>>
    /\ \/ \E chunks \in ProviderStreams :
            /\ stream' = [state |-> "open", pending |-> chunks, full_output |-> "",
                          yielded |-> <<>>]
            /\ last' = [op |-> "stream_request", outcome |-> "open", prompt |-> prompt,
                        response |-> "", reached |-> TRUE,
                        sent |-> create_messages(messages'),
                        reply |-> NoReply, before |-> Before]
       \/ /\ stream' = IdleStream
          /\ last' = [op |-> "stream_request", outcome |-> "Error during streaming request",
                      prompt |-> prompt, response |-> "", reached |-> TRUE,
                      sent |-> create_messages(messages'), reply |-> NoReply,
                      before |-> Before]

StreamRequest == \E prompt \in Prompts : stream_request(prompt)

\* stream_request(prompt) whose generator is dropped before its first
\* next(): no line of the body has run.
stream_discard(prompt) ==
    /\ stream.state = "idle"
    /\ ncalls < MaxCalls
    /\ nstreams < MaxStreams
    /\ ncalls' = ncalls + 1
    /\ nstreams' = nstreams + 1
    /\ last' = [op |-> "stream_request", outcome |-> "abandoned", prompt |-> prompt,
                response |-> "", reached |-> FALSE, sent |-> <<>>, reply |-> NoReply,
                before |-> Before]
    /\ UNCHANGED <<config_vars, other_vars, session_vars, stream>>

StreamDiscard == \E prompt \in Prompts : stream_discard(prompt)

\* The loop body for the next chunk of the stream: a chunk with text is
\* added to full_output and yielded, a chunk without is passed over.
StreamChunk ==
    /\ stream.state = "open"
    /\ stream.pending # <<>>
    /\ LET text == Head(stream.pending)
       IN  stream' = IF text # ""
                     THEN [stream EXCEPT !.pending = Tail(@),
                                         !.full_output = append_text(@, text),
                                         !.yielded = Append(@, text)]
                     ELSE [stream EXCEPT !.pending = Tail(@)]
    /\ UNCHANGED <<config_vars, other_vars, session_vars, last, ncalls, nstreams>>

\* Recording the full response with an accounting of it, as request does.
StreamEnd_accounting ==
    /\ stream.state = "open"
    /\ stream.pending = <<>>
    /\ heap' = [heap EXCEPT ![outputs] = Append(@, stream.full_output)]
    /\ messages' = Append(messages, format_output(stream.full_output))
    /\ request_count' = request_count + 1
    /\ total_tokens' = token_update(total_tokens, Len(stream.yielded))
    /\ text_finishin_reasons' = Append(text_finishin_reasons, finish_reason_code_dict[0])
    /\ stream' = IdleStream
    /\ last' = [last EXCEPT !.outcome = "ok", !.response = stream.full_output]
    /\ UNCHANGED <<config_vars, other_vars, inputs, outputs, requests_info, total_price,
                   input_tokens, output_tokens, sessions_info, ncalls, nstreams>>

\* Mutant: the full response is recorded without being counted.
StreamEnd_uncounted ==
    /\ stream.state = "open"
    /\ stream.pending = <<>>
    /\ heap' = [heap EXCEPT ![outputs] = Append(@, stream.full_output)]
    /\ messages' = Append(messages, format_output(stream.full_output))
    /\ stream' = IdleStream
    /\ last' = [last EXCEPT !.outcome = "ok", !.response = stream.full_output]
    /\ UNCHANGED <<config_vars, other_vars, inputs, outputs, requests_info, total_price, total_tokens,
                   input_tokens, output_tokens, sessions_info, text_finishin_reasons,
                   request_count, ncalls, nstreams>>

\* The stream is exhausted: the full response is recorded.
StreamEnd ==
    /\ stream.state = "open"
    /\ stream.pending = <<>>
    /\ heap' = [heap EXCEPT ![outputs] = Append(@, stream.full_output)]
    /\ messages' = Append(messages, format_output(stream.full_output))
    /\ request_count' = request_count + 1
    /\ stream' = IdleStream
    /\ last' = [last EXCEPT !.outcome = "ok", !.response = stream.full_output]
    /\ UNCHANGED <<config_vars, other_vars, inputs, outputs, requests_info, total_price, total_tokens,
                   input_tokens, output_tokens, sessions_info, text_finishin_reasons,
                   ncalls, nstreams>>

\* The provider raises while the stream is read.
StreamError ==
    /\ stream.state = "open"
    /\ stream' = IdleStream
    /\ last' = [last EXCEPT !.outcome = "Error during streaming request"]
    /\ UNCHANGED <<config_vars, other_vars, session_vars, ncalls, nstreams>>

\* Dropping the generator recording what was yielded so far, as a finally
\* clause around the loop would.
StreamAbandon_committing ==
    /\ stream.state = "open"
    /\ Len(stream.yielded) > 0
    /\ heap' = [heap EXCEPT ![outputs] = Append(@, stream.full_output)]
    /\ messages' = Append(messages, format_output(stream.full_output))
    /\ request_count' = request_count + 1
    /\ stream' = IdleStream
    /\ last' = [last EXCEPT !.outcome = "abandoned"]
    /\ UNCHANGED <<config_vars, other_vars, inputs, outputs, requests_info, total_price,
                   total_tokens, input_tokens, output_tokens, sessions_info,
                   text_finishin_reasons, ncalls, nstreams>>

\* The consumer drops the generator while it is suspended at its yield:
\* GeneratorExit is no Exception, nothing after the loop runs.
StreamAbandon ==
    /\ stream.state = "open"
    /\ Len(stream.yielded) > 0
    /\ stream' = IdleStream
    /\ last' = [last EXCEPT !.outcome = "abandoned"]
    /\ UNCHANGED <<config_vars, other_vars, session_vars, ncalls, nstreams>>

\* ------------------------------------------------------------ new_session

\* Mutant: the entry is built with the input and output counters exchanged.
session_info_swapped ==
    [total_tokens |-> total_tokens,
     total_price |-> total_price,
     inputs |-> inputs,
     outputs |-> outputs,
     requests_info |-> requests_info,
     input_tokens |-> output_tokens,
     output_tokens |-> input_tokens,
     request_count |-> request_count]

\* The entry new_session stores: the counters by value, the three lists by
\* reference.
session_info ==
    [total_tokens |-> total_tokens,
     total_price |-> total_price,
     inputs |-> inputs,
     outputs |-> outputs,
     requests_info |-> requests_info,
     input_tokens |-> input_tokens,
     output_tokens |-> output_tokens,
     request_count |-> request_count]

\* Mutant: the three lists are emptied in place (list.clear()), not rebound.
fresh_lists_in_place ==
    [heap |-> [heap EXCEPT ![outputs] = <<>>, ![inputs] = <<>>,
                           ![requests_info] = <<>>],
     outputs |-> outputs,
     inputs |-> inputs,
     requests_info |-> requests_info]

\* self.outputs = [], self.inputs = [], self.requests_info = []: three new
\* list objects, to which the attributes are rebound.
fresh_lists ==
    [heap |-> heap \o << <<>>, <<>>, <<>> >>,
     outputs |-> Len(heap) + 1,
     inputs |-> Len(heap) + 2,
     requests_info |-> Len(heap) + 3]

new_session ==
    /\ stream.state = "idle"
    /\ ncalls < MaxCalls
    /\ ncalls' = ncalls + 1
    /\ sessions_info' = Append(sessions_info, session_info)
    /\ messages' = <<sys_msg>>
    /\ heap' = fresh_lists.heap
    /\ outputs' = fresh_lists.outputs
    /\ inputs' = fresh_lists.inputs
    /\ total_price' = 0
    /\ total_tokens' = None
    /\ input_tokens' = None
    /\ request_count' = 0
    /\ output_tokens' = None
    /\ requests_info' = fresh_lists.requests_info
    /\ last' = [op |-> "new_session", outcome |-> "ok", prompt |-> "", response |-> "",
                reached |-> FALSE, sent |-> <<>>, reply |-> NoReply,
                before |-> Before]
    /\ UNCHANGED <<config_vars, other_vars, text_finishin_reasons, stream, nstreams>>

\* ------------------------------------------------------------------- Spec

Next ==
    \/ Request
    \/ StreamRequest
    \/ StreamDiscard
    \/ StreamChunk
    \/ StreamEnd
    \/ StreamError
    \/ StreamAbandon
    \/ new_session

Spec == Init /\ [][Next]_vars

\* ---------------------------------------------------------- response_price

\* Model identifiers a caller may pass: the registered ones and others.
ModelIds == model_versions \cup {"gpt-4", "gpt-3.5-turbo", ""}

TokenCounts == (0..MaxTokens) \cup {Million}

\* GptModel.response_price(m, in_tokens, out_tokens) called on its own: what
\* it returned or raised.  A static method: it has no self to write to.  One
\* such call is followed per behaviour, at any point of the session.
response_price_call(m, in_tokens, out_tokens) ==
    /\ ~price_call.called
    /\ price_call' = [called |-> TRUE, model |-> m, input_tokens |-> in_tokens,
                      output_tokens |-> out_tokens,
                      ok |-> response_price(m, in_tokens, out_tokens).ok,
                      error |-> response_price(m, in_tokens, out_tokens).error,
                      price |-> response_price(m, in_tokens, out_tokens).price]
    /\ UNCHANGED <<config_vars, session_vars, stream, last, ncalls, nstreams, class_attrs,
                   pipe, doc, bd, audio, inv, sse, resp>>

ResponsePrice ==
    \E m \in ModelIds, in_tokens \in TokenCounts, out_tokens \in TokenCounts :
        response_price_call(m, in_tokens, out_tokens)

\* The operations of a session of at most MaxSessionCalls calls.
SessionStep == (ncalls < MaxSessionCalls \/ stream.state # "idle") /\ Next

PriceNext ==
    \/ SessionStep
    \/ ResponsePrice

SpecPrice == Init /\ [][PriceNext]_vars

\* ------------------------------------------------------- transcribe_to_srt

\* The max_context of the session gpt_fix_srt makes.
max_context == 100000

\* Times are datetime.timedelta values, counted in microseconds.
Second == 1000000

\* The segments of the audio, as the speech model yields them.
WhisperSegments ==
    [i \in 1..MaxSegments |->
        [start |-> (i - 1) * Second, end |-> i * Second,
         text |-> IF i % 2 = 1 THEN "s1" ELSE "s2"]]

\* How a call of transcribe goes: the audio path is no file; the speech
\* model raises, at the call or after it has yielded some segments; or it
\* yields the segments of the audio to the end.
SpeechNotCalled == [kind |-> "not called", yielded |-> <<>>]

SpeechOutcomes ==
    {[kind |-> "invalid path", yielded |-> <<>>]} \cup
    { [kind |-> k, yielded |-> SubSeq(WhisperSegments, 1, n)] :
        k \in {"raised", "ok"}, n \in 0..MaxSegments }

\* transcribe handing on the segments it got before the speech model raised.
transcribe_partial(speech) ==
    IF speech.kind \in {"ok", "raised"} THEN Some(speech.yielded) ELSE None

\* transcribe: the list of the segments, or None where the path is invalid
\* or the speech model raised, at the call or while list() consumed it.
transcribe(speech) ==
    IF speech.kind = "ok" THEN Some(speech.yielded) ELSE None

\* The subtitles with enumerate counting from 0.
subtitles_from_zero(segments) ==
    [i \in 1..Len(segments) |->
        [index |-> i - 1, start |-> segments[i].start, end |-> segments[i].end,
         content |-> segments[i].text]]

\* The srt.Subtitle list built from the segments, indexed from 1.
subtitles(segments) ==
    [i \in 1..Len(segments) |->
        [index |-> i, start |-> segments[i].start, end |-> segments[i].end,
         content |-> segments[i].text]]

\* An SRT timestamp "HH:MM:SS,mmm", held as the number its digits spell:
\* 1 min 2.004 s is "00:01:02,004", the number 102004.
\* The timestamp with the minutes left in the seconds.
timedelta_to_srt_timestamp_no_carry(t) ==
    LET secs == t \div Second
        msecs == (t % Second) \div 1000
    IN  (secs \div 3600) * 10000000 + ((secs \div 60) % 60) * 100000
          + (secs % 3600) * 1000 + msecs

\* srt.timedelta_to_srt_timestamp: hours, minutes and seconds by divmod, and
\* the microseconds cut to whole milliseconds.
timedelta_to_srt_timestamp(t) ==
    LET secs == t \div Second
        msecs == (t % Second) \div 1000
    IN  (secs \div 3600) * 10000000 + ((secs \div 60) % 60) * 100000
          + (secs % 60) * 1000 + msecs

\* srt.srt_timestamp_to_timedelta: the time a timestamp spells.
srt_timestamp_to_timedelta(ts) ==
    ((ts \div 10000000) * 3600 + ((ts \div 100000) % 100) * 60 + ((ts \div 1000) % 100)) * Second
      + (ts % 1000) * 1000

\* The order srt.sort_and_reindex sorts by: start, then end, then index.
SubtitleBefore(a, b) ==
    \/ a.start < b.start
    \/ a.start = b.start /\ a.end < b.end
    \/ a.start = b.start /\ a.end = b.end /\ a.index <= b.index

RECURSIVE sorted(_)
sorted(subs) ==
    IF subs = <<>>
    THEN <<>>
    ELSE LET i == CHOOSE i \in 1..Len(subs) : \A j \in 1..Len(subs) : SubtitleBefore(subs[i], subs[j])
         IN  <<subs[i]>> \o sorted(SubSeq(subs, 1, i - 1) \o SubSeq(subs, i + 1, Len(subs)))

\* The cues srt.sort_and_reindex keeps: content that is not blank, a start
\* that is not negative and that lies before the end.
should_keep(sub) ==
    /\ sub.content \notin {"", " "}
    /\ sub.start >= 0
    /\ sub.start < sub.end

\* srt.sort_and_reindex with start_index = 1 and in_place = False.
sort_and_reindex(subs) ==
    LET kept == SelectSeq(sorted(subs), should_keep)
    IN  [i \in 1..Len(kept) |-> [kept[i] EXCEPT !.index = i]]

\* srt.compose: the subtitles sorted and reindexed, and for each its index,
\* its times, its content and a blank line.
compose(subs) ==
    LET cues == sort_and_reindex(subs)
    IN  [k \in 1..(4 * Len(cues)) |->
            LET sub == cues[((k - 1) \div 4) + 1]
                j == (k - 1) % 4
            IN  CASE j = 0 -> IndexLine(sub.index)
                  [] j = 1 -> TimeLine(timedelta_to_srt_timestamp(sub.start),
                                       timedelta_to_srt_timestamp(sub.end))
                  [] j = 2 -> TextLine(sub.content)
                  [] j = 3 -> BlankLine]

\* The cues a text deserializes into, or ok = FALSE where it is no sequence
\* of cues as compose writes them.
RECURSIVE parse(_)
parse(text) ==
    IF text = <<>>
    THEN [ok |-> TRUE, subs |-> <<>>]
    ELSE IF /\ Len(text) >= 4
            /\ text[1].kind = "index"
            /\ text[2].kind = "time"
            /\ text[3].kind = "text"
            /\ text[4].kind = "blank"
    THEN LET rest == parse(SubSeq(text, 5, Len(text)))
         IN  [ok |-> rest.ok,
              subs |-> << [index |-> text[1].index,
                           start |-> srt_timestamp_to_timedelta(text[2].start),
                           end |-> srt_timestamp_to_timedelta(text[2].end),
                           content |-> text[3].text] >> \o rest.subs]
    ELSE [ok |-> FALSE, subs |-> <<>>]

\* The text with the content of every cue rewritten.
Cleaned(text) ==
    [k \in 1..Len(text) |-> IF text[k].kind = "text" THEN TextLine("fixed") ELSE text[k]]

\* The text with its first two cues merged as the system message allows:
\* one cue from the start of the first to the end of the second.
Merged(text) ==
    LET subs == parse(text).subs
    IN  IF Len(subs) < 2
        THEN Cleaned(text)
        ELSE Cleaned(compose(<< [subs[1] EXCEPT !.end = subs[2].end] >>
                               \o SubSeq(subs, 3, Len(subs))))

\* The text with the end of its first cue moved, which the system message
\* forbids.
Retimed(text) ==
    LET subs == parse(text).subs
    IN  IF subs = <<>>
        THEN Cleaned(text)
        ELSE Cleaned(compose([subs EXCEPT ![1].end = subs[1].end + Second \div 2]))

\* What the provider may do with the request of gpt_fix_srt: fail, or reply
\* with no content, with the empty string, with the cleaned text, with the
\* text unchanged, with cues merged, with a time changed, with commentary
\* before the text or in place of it, with the text cut at the token limit,
\* or with a finish condition that process_output does not know.
LlmOutcomes(source) ==
    {LlmNoKey, LlmRaised,
     LlmReply(None, "stop"),
     LlmReply(Some(<<>>), "stop"),
     LlmReply(Some(Cleaned(source)), "stop"),
     LlmReply(Some(source), "stop"),
     LlmReply(Some(Merged(source)), "stop"),
     LlmReply(Some(Retimed(source)), "stop"),
     LlmReply(Some(<<TextLine("Here is the cleaned file:")>> \o Cleaned(source)), "stop"),
     LlmReply(Some(<<TextLine("I cannot help with that.")>>), "stop"),
     LlmReply(Some(SubSeq(Cleaned(source), 1, Len(source) - 2)), "length"),
     LlmReply(Some(Cleaned(source)), "tool_calls")}

\* gpt_fix_srt returning the source where the request failed.
gpt_fix_srt_falling_back(source, llm) ==
    IF llm.kind = "no key" \/ gpt_version \notin class_attrs.model_versions
    THEN Some(source)
    ELSE IF context_check(0, None, max_context) # "pass"
    THEN Some(source)
    ELSE IF llm.kind = "raised"
    THEN Some(source)
    ELSE LET f_result == process_output(llm.reply, gpt_version)
         IN  IF ~f_result.ok THEN Some(source) ELSE f_result.output

\* gpt_fix_srt: a new GptModel, one request of the source, its response;
\* None where the constructor or the request raised.
gpt_fix_srt(source, llm) ==
    IF llm.kind = "no key" \/ gpt_version \notin class_attrs.model_versions
    THEN None
    ELSE IF context_check(0, None, max_context) # "pass"
    THEN None
    ELSE IF llm.kind = "raised"
    THEN None
    ELSE LET f_result == process_output(llm.reply, gpt_version)
         IN  IF ~f_result.ok THEN None ELSE f_result.output

\* The requests with a second request after one that raised.
gpt_fix_srt_requests_retrying(llm) ==
    IF llm.kind = "no key" \/ gpt_version \notin class_attrs.model_versions
    THEN 0
    ELSE IF context_check(0, None, max_context) # "pass"
    THEN 0
    ELSE IF llm.kind = "raised"
    THEN 2
    ELSE 1

\* The requests gpt_fix_srt sends to the provider: the one of
\* model.request(source), where the constructor and the context check let
\* it be sent; what it raises is caught and not tried again.
gpt_fix_srt_requests(llm) ==
    IF llm.kind = "no key" \/ gpt_version \notin class_attrs.model_versions
    THEN 0
    ELSE IF context_check(0, None, max_context) # "pass"
    THEN 0
    ELSE 1

\* How the writes of a call go.
DiskOutcomes == {"ok", "first open fails", "second open fails"}

\* The branch without correction handing on the text with its cues rewritten.
uncorrected_rewritten(raw, string_result, disk, files) ==
    IF string_result
    THEN [result |-> ReturnText(Cleaned(raw)), files |-> files]
    ELSE IF disk # "ok"
    THEN [result |-> ReturnNone, files |-> files]
    ELSE [result |-> ReturnPath, files |-> [files EXCEPT !.output = Some(Cleaned(raw))]]

\* The branch of transcribe_to_srt without correction: the composed text is
\* returned, or written to output_path.
uncorrected(raw, string_result, disk, files) ==
    IF string_result
    THEN [result |-> ReturnText(raw), files |-> files]
    ELSE IF disk # "ok"
    THEN [result |-> ReturnNone, files |-> files]
    ELSE [result |-> ReturnPath, files |-> [files EXCEPT !.output = Some(raw)]]

\* transcribe_to_srt, whole.  path_ok: the output path could be resolved.
transcribe_to_srt(path_ok, speech, fix_with_chat_gpt, string_result, llm, disk) ==
    LET transcription == IF path_ok THEN transcribe(speech) ELSE None
        return(raw, called_llm, result, files) ==
            pipe' = [called |-> TRUE, fix_with_chat_gpt |-> fix_with_chat_gpt,
                     string_result |-> string_result,
                     speech |-> [kind |-> speech.kind, yielded |-> Len(speech.yielded)],
                     raw |-> raw,
                     llm |-> IF called_llm THEN llm ELSE LlmNotCalled,
                     llm_calls |-> IF called_llm THEN gpt_fix_srt_requests(llm) ELSE 0,
                     result |-> result, files |-> files]
    IN  /\ UNCHANGED <<config_vars, session_vars, stream, last, ncalls, nstreams,
                       class_attrs, price_call, doc, bd, audio, inv, sse, resp>>
        /\ IF ~path_ok \/ IsNone(transcription)
           THEN return(None, FALSE, ReturnNone, pipe.files)
           ELSE LET raw == compose(subtitles(Val(transcription)))
                IN  IF fix_with_chat_gpt
                    THEN LET rsrt == gpt_fix_srt(raw, llm)
                         IN  IF IsNone(rsrt) \/ Val(rsrt) = <<>>
                             THEN return(Some(raw), TRUE, ReturnNone, pipe.files)
                             ELSE IF string_result
                             THEN return(Some(raw), TRUE, ReturnText(Val(rsrt)), pipe.files)
                             ELSE IF disk = "first open fails"
                             THEN return(Some(raw), TRUE, ReturnNone, pipe.files)
                             ELSE IF disk = "second open fails"
                             THEN return(Some(raw), TRUE, ReturnNone,
                                         [pipe.files EXCEPT !.nogpt = Some(raw)])
                             ELSE return(Some(raw), TRUE, ReturnPath,
                                         [nogpt |-> Some(raw), output |-> rsrt])
                    ELSE LET done == uncorrected(raw, string_result, disk, pipe.files)
                         IN  return(Some(raw), FALSE, done.result, done.files)

\* The calls of transcribe_to_srt; what a call does not get to (the speech
\* model after a bad path, the LLM without correction or without segments,
\* the disk for a string result or without a text to write) is not drawn.
TranscribeToSrt ==
    \E path_ok \in BOOLEAN, fix_with_chat_gpt \in BOOLEAN, string_result \in BOOLEAN :
      \E speech \in (IF path_ok THEN SpeechOutcomes ELSE {SpeechNotCalled}) :
        \E llm \in (IF fix_with_chat_gpt /\ speech.kind = "ok"
                     THEN LlmOutcomes(compose(subtitles(speech.yielded)))
                     ELSE {LlmNotCalled}) :
          \E disk \in (IF \/ string_result
                           \/ speech.kind # "ok"
                           \/ /\ fix_with_chat_gpt
                              /\ gpt_fix_srt(compose(subtitles(speech.yielded)), llm)
                                   \in {None, Some(<<>>)}
                        THEN {"ok"} ELSE DiskOutcomes) :
            transcribe_to_srt(path_ok, speech, fix_with_chat_gpt, string_result,
                              llm, disk)

\* The wrapper with its default gpt_version, before any call.
PipelineInit == Init /\ model = gpt_version

PipelineNext == TranscribeToSrt

SpecPipeline == PipelineInit /\ [][PipelineNext]_vars

\* ------------------------------------------------------------ cue assembly
\*
\* SpecAssembler: the subtitle document of one transcription, assembled and
\* written by transcribe_to_srt or written by generate_srt.

\* The times a segment may start or end at: the speech model reports times
\* in hundredths of a second.
TimePoints == {0, Second, 2560000, 62040000, 1999980000}

SegmentTexts == {"s1", " s2"}

\* The segments the speech model may yield: it leaves out those with blank
\* text and those that start where they end.
Segments ==
    { g \in [start : TimePoints, end : TimePoints, text : SegmentTexts] : g.start < g.end }

\* The segment sequences of at most n segments, in the order of the audio.
RECURSIVE SegmentSequences(_)
SegmentSequences(n) ==
    IF n = 0
    THEN {<<>>}
    ELSE LET shorter == SegmentSequences(n - 1)
         IN  shorter \cup
             { Append(p[1], p[2]) :
                 p \in { p \in shorter \X Segments :
                           /\ Len(p[1]) = n - 1
                           /\ n > 1 => p[1][n - 1].end <= p[2].start } }

\* str.strip() on the texts of SegmentTexts.
strip(text) == IF text = " s2" THEN "s2" ELSE text

\* srt_utils.format_time: "HH:MM:SS,mmm" of a number of seconds.
format_time(seconds) ==
    LET whole == seconds \div Second
        h == whole \div 3600
        m == (whole % 3600) \div 60
        sec == whole % 60
        ms == (seconds - whole * Second) \div 1000
    IN  h * 10000000 + m * 100000 + sec * 1000 + ms

\* srt_utils.generate_srt: what it writes to srt_path.  Each segment gives
\* the lines "i", "start --> end", text and "", the last "" left out.
generate_srt(segments) ==
    [k \in 1..(IF segments = <<>> THEN 0 ELSE 4 * Len(segments) - 1) |->
        LET i == ((k - 1) \div 4) + 1
            j == (k - 1) % 4
        IN  CASE j = 0 -> IndexLine(i)
              [] j = 1 -> TimeLine(format_time(segments[i].start), format_time(segments[i].end))
              [] j = 2 -> TextLine(strip(segments[i].text))
              [] j = 3 -> BlankLine]

\* The assembly of transcribe_to_srt: the subtitles of the segments and
\* their serialization, and what the serialization reads back as.
ComposeSrt ==
    \E segments \in SegmentSequences(MaxSegments) :
        /\ doc.op = "none"
        /\ doc' = [op |-> "transcribe_to_srt", segments |-> segments,
                   subtitles |-> subtitles(segments),
                   text |-> compose(subtitles(segments)),
                   parsed |-> parse(compose(subtitles(segments)))]
        /\ UNCHANGED <<config_vars, session_vars, stream, last, ncalls, nstreams,
                       class_attrs, price_call, pipe, bd, audio, inv, sse, resp>>

GenerateSrt ==
    \E segments \in SegmentSequences(MaxSegments) :
        /\ doc.op = "none"
        /\ doc' = [op |-> "generate_srt", segments |-> segments, subtitles |-> <<>>,
                   text |-> generate_srt(segments),
                   parsed |-> [ok |-> FALSE, subs |-> <<>>]]
        /\ UNCHANGED <<config_vars, session_vars, stream, last, ncalls, nstreams,
                       class_attrs, price_call, pipe, bd, audio, inv, sse, resp>>

AssemblerNext == ComposeSrt \/ GenerateSrt

SpecAssembler == PipelineInit /\ [][AssemblerNext]_vars

\* ------------------------------------------------------ sentence breakdown
\*
\* SpecBreakdown: the routes /gpt/breakdown and /gpt/custom_breakdown.  A
\* sentence is the sequence of its characters, each named by its code point.

CornerBrackets == {"U+300C", "U+300D"}

FullwidthParentheses == {"U+FF08", "U+FF09"}

\* "neko wa kawaii".
Plain == <<"U+732B", "U+306F", "U+53EF", "U+611B", "U+3044">>

\* The same with the first word in corner brackets.
Bracketed == <<"U+300C", "U+732B", "U+300D", "U+306F", "U+53EF", "U+611B", "U+3044">>

\* The same with the first word in fullwidth parentheses.
Parenthesized == <<"U+FF08", "U+732B", "U+FF09", "U+306F", "U+53EF", "U+611B", "U+3044">>

Sentences == {Plain, Bracketed, Parenthesized, <<"U+FF08", "U+300C", "U+732B">>,
              <<"U+FF08", "U+FF09">>}

\* The sentence with the corner brackets removed.
cleaned_of_corner_brackets(sentence) ==
    SelectSeq(sentence, LAMBDA c : c \notin CornerBrackets)

\* re.sub(r"[\uFF08\uFF09]", "", req.sentence)
cleaned(sentence) ==
    SelectSeq(sentence, LAMBDA c : c \notin FullwidthParentheses)

\* How the tokenizer and the dictionary take a sentence.
LookupOutcomes == {"ok", "raises on parentheses", "raises"}

\* How the provider takes a request.
ProviderOutcomes == {"reply", "no content", "raised"}

\* word_lookup raising.
word_lookup_raises(sentence, lookup) ==
    \/ lookup = "raises"
    \/ lookup = "raises on parentheses" /\ \E i \in 1..Len(sentence) : sentence[i] \in FullwidthParentheses

\* GptExplainService.explain and explain_sentence: a new GptModel, which
\* raises without a key or a supported version, and one request.
gpt_explain(key, provider) ==
    IF ~key \/ explainer_version \notin class_attrs.model_versions
    THEN [raised |-> TRUE, error |-> "configuration", llm_calls |-> 0, response |-> None]
    ELSE IF provider = "raised"
    THEN [raised |-> TRUE, error |-> "provider", llm_calls |-> 1, response |-> None]
    ELSE [raised |-> FALSE, error |-> "", llm_calls |-> 1,
          response |-> IF provider = "no content" THEN None ELSE Some("explanation")]

\* GptExplainService.explain_custom and explain_sentence_custom: None where
\* the prompt cannot be formatted.
gpt_explain_custom(prompt_ok, key, provider) ==
    IF ~prompt_ok
    THEN [raised |-> FALSE, error |-> "", llm_calls |-> 0, response |-> None]
    ELSE gpt_explain(key, provider)

\* SentenceBreakdownService.explain.
explain(sentence, key, lookup, provider) ==
    IF word_lookup_raises(sentence, lookup)
    THEN [raised |-> TRUE, error |-> "lookup", llm_calls |-> 0, sentence |-> sentence,
          gpt_explanation |-> None]
    ELSE LET gpt_text == gpt_explain(key, provider)
         IN  [raised |-> gpt_text.raised, error |-> gpt_text.error,
              llm_calls |-> gpt_text.llm_calls, sentence |-> sentence,
              gpt_explanation |-> gpt_text.response]

\* SentenceBreakdownService.explain_custom.
explain_custom(sentence, prompt_ok, key, lookup, provider) ==
    IF word_lookup_raises(sentence, lookup)
    THEN [raised |-> TRUE, error |-> "lookup", llm_calls |-> 0, sentence |-> sentence,
          gpt_explanation |-> None]
    ELSE LET gpt_text == gpt_explain_custom(prompt_ok, key, provider)
         IN  [raised |-> gpt_text.raised, error |-> gpt_text.error,
              llm_calls |-> gpt_text.llm_calls, sentence |-> sentence,
              gpt_explanation |-> gpt_text.response]

\* What a request leaves: the attempts made, and the response.  A result
\* without an explanation does not validate as a BreakdownResponse.
responded(op, sentence, key, attempts, echoed) ==
    LET last_attempt == attempts[Len(attempts)]
        valid == ~last_attempt.raised /\ ~IsNone(last_attempt.gpt_explanation)
    IN  [called |-> TRUE, op |-> op, sentence |-> sentence, key |-> key,
         attempts |-> [i \in 1..Len(attempts) |->
                          [sentence |-> attempts[i].sentence, error |-> attempts[i].error,
                           raised |-> attempts[i].raised,
                           llm_calls |-> attempts[i].llm_calls]],
         status |-> IF valid THEN 200 ELSE 500,
         body |-> IF valid
                  THEN [sentence |-> echoed, gpt_explanation |-> last_attempt.gpt_explanation]
                  ELSE [sentence |-> <<>>, gpt_explanation |-> None]]

\* breakdown trying the cleaned sentence a second time.
breakdown_retrying_twice(sentence, key, lookup, provider) ==
    LET first == explain(sentence, key, lookup, provider[1])
        second == explain(cleaned(sentence), key, lookup, provider[2])
    IN  /\ bd' = IF ~first.raised
                 THEN responded("breakdown", sentence, key, <<first>>, first.sentence)
                 ELSE IF ~second.raised
                 THEN responded("breakdown", sentence, key, <<first, second>>, sentence)
                 ELSE responded("breakdown", sentence, key, <<first, second, second>>, sentence)
        /\ UNCHANGED <<config_vars, session_vars, stream, last, ncalls, nstreams,
                       class_attrs, price_call, pipe, doc, audio, inv, sse, resp>>

\* breakdown returning the result of the retry as it is.
breakdown_echoing_cleaned(sentence, key, lookup, provider) ==
    LET first == explain(sentence, key, lookup, provider[1])
        second == explain(cleaned(sentence), key, lookup, provider[2])
    IN  /\ bd' = IF ~first.raised
                 THEN responded("breakdown", sentence, key, <<first>>, first.sentence)
                 ELSE responded("breakdown", sentence, key, <<first, second>>, second.sentence)
        /\ UNCHANGED <<config_vars, session_vars, stream, last, ncalls, nstreams,
                       class_attrs, price_call, pipe, doc, audio, inv, sse, resp>>

\* POST /gpt/breakdown: the result of explain; after any exception one more
\* explain with the cleaned sentence, whose result is given the sentence of
\* the request, or HTTP 500.
breakdown(sentence, key, lookup, provider) ==
    LET first == explain(sentence, key, lookup, provider[1])
        second == explain(cleaned(sentence), key, lookup, provider[2])
    IN  /\ bd' = IF ~first.raised
                 THEN responded("breakdown", sentence, key, <<first>>, first.sentence)
                 ELSE responded("breakdown", sentence, key, <<first, second>>, sentence)
        /\ UNCHANGED <<config_vars, session_vars, stream, last, ncalls, nstreams,
                       class_attrs, price_call, pipe, doc, audio, inv, sse, resp>>

\* POST /gpt/custom_breakdown: the same around explain_custom.
custom_breakdown(sentence, prompt_ok, key, lookup, provider) ==
    LET first == explain_custom(sentence, prompt_ok, key, lookup, provider[1])
        second == explain_custom(cleaned(sentence), prompt_ok, key, lookup, provider[2])
    IN  /\ bd' = IF ~first.raised
                 THEN responded("custom_breakdown", sentence, key, <<first>>, first.sentence)
                 ELSE responded("custom_breakdown", sentence, key, <<first, second>>, sentence)
        /\ UNCHANGED <<config_vars, session_vars, stream, last, ncalls, nstreams,
                       class_attrs, price_call, pipe, doc, audio, inv, sse, resp>>

Breakdown ==
    \E sentence \in Sentences, key \in BOOLEAN, lookup \in LookupOutcomes,
       provider \in [1..2 -> ProviderOutcomes] :
        breakdown(sentence, key, lookup, provider)

CustomBreakdown ==
    \E sentence \in Sentences, prompt_ok \in BOOLEAN, key \in BOOLEAN,
       lookup \in LookupOutcomes, provider \in [1..2 -> ProviderOutcomes] :
        custom_breakdown(sentence, prompt_ok, key, lookup, provider)

BreakdownNext == Breakdown \/ CustomBreakdown

SpecBreakdown == PipelineInit /\ [][BreakdownNext]_vars

\* ------------------------------------------------------------ audio tools
\*
\* SpecAudio: AudioTools (run_command, to_wav, extract_audio, filter_audio,
\* to_mp4) and the step of the route /video/generate_srt that extracts the
\* audio.  A run of ffmpeg is its exit code and whether it left its output
\* file behind.

ToolRuns ==
    {[returncode |-> 0, wrote |-> TRUE],
     [returncode |-> 1, wrote |-> FALSE],
     [returncode |-> 1, wrote |-> TRUE]}

\* The files of the directory after a run that writes to out.
written(files, out, tool) == IF tool.wrote THEN files \cup {out} ELSE files

\* run_command: subprocess.run raises CalledProcessError only with check
\* set and an exit code other than 0; the handler logs the error and
\* returns None, unless capture_output is set: then e.stderr.decode() is
\* called on a str (text=True) and raises AttributeError before
\* error_log.txt is opened.  Without check the CompletedProcess is returned
\* whatever its exit code.
run_command(returncode, capture_output, check, hide_and_log) ==
    IF check /\ returncode # 0
    THEN [returned |-> IF capture_output
                       THEN Returned("AttributeError", 0)
                       ELSE Returned("None", 0),
          logged_error |-> TRUE]
    ELSE [returned |-> Returned("CompletedProcess", returncode), logged_error |-> FALSE]

\* An operation as the state records it.
performed(op, flags, commands, returned, logged_error, transcribed, files) ==
    [op |-> op, capture_output |-> flags[1], check |-> flags[2], hide_and_log |-> flags[3],
     use_nvenc |-> flags[4], input_ok |-> flags[5], commands |-> commands, returned |-> returned,
     logged_error |-> logged_error, transcribed |-> transcribed, files |-> files]

\* A command as the state records it.
Command(name, tool) == [name |-> name, returncode |-> tool.returncode]

RunCommand ==
    \E tool \in ToolRuns, capture_output \in BOOLEAN, check \in BOOLEAN,
       hide_and_log \in BOOLEAN :
        LET result == run_command(tool.returncode, capture_output, check, hide_and_log)
        IN  /\ audio' = performed("run_command", <<capture_output, check, hide_and_log, FALSE, TRUE>>,
                                   <<Command("command", tool)>>, result.returned,
                                   result.logged_error, FALSE,
                                   written(audio.files, "out", tool))
            /\ UNCHANGED <<config_vars, session_vars, stream, last, ncalls, nstreams,
                           class_attrs, price_call, pipe, doc, bd, inv, sse, resp>>

\* to_wav: the command run with capture_output, check and hide_and_log; the
\* output path, whatever run_command returned.
to_wav(tool) ==
    LET result == run_command(tool.returncode, TRUE, TRUE, TRUE)
    IN  /\ audio' = performed("to_wav", <<TRUE, TRUE, TRUE, FALSE, TRUE>>, <<Command("to_wav", tool)>>,
                               IF result.returned.kind = "AttributeError"
                               THEN result.returned
                               ELSE Returned("path", 0),
                               result.logged_error, FALSE,
                               written(audio.files, "wav", tool))
        /\ UNCHANGED <<config_vars, session_vars, stream, last, ncalls, nstreams,
                       class_attrs, price_call, pipe, doc, bd, inv, sse, resp>>

\* The return value of extract_audio and of filter_audio: the output path,
\* the result of run_command not being looked at.
normalized(result) == Returned("path", 0)

\* extract_audio: the input path for an audio file; else the command, run
\* with hide_and_log only, and the path of the .wav.
extract_audio(is_audio, tool, files) ==
    IF is_audio
    THEN [commands |-> <<>>, returned |-> Returned("path", 0), logged_error |-> FALSE,
          files |-> files, exists |-> TRUE]
    ELSE LET result == run_command(tool.returncode, FALSE, FALSE, TRUE)
         IN  [commands |-> <<Command("extract_audio", tool)>>, returned |-> normalized(result),
              logged_error |-> result.logged_error, files |-> written(files, "wav", tool),
              exists |-> "wav" \in written(files, "wav", tool)]

ExtractAudio ==
    \E is_audio \in BOOLEAN, tool \in ToolRuns :
        LET done == extract_audio(is_audio, tool, audio.files)
        IN  /\ audio' = performed("extract_audio", <<FALSE, FALSE, TRUE, FALSE, TRUE>>,
                                   done.commands, done.returned, done.logged_error, FALSE,
                                   done.files)
            /\ UNCHANGED <<config_vars, session_vars, stream, last, ncalls, nstreams,
                           class_attrs, price_call, pipe, doc, bd, inv, sse, resp>>

\* filter_audio: the command, run with hide_and_log only, and output_wav.
filter_audio(tool) ==
    LET result == run_command(tool.returncode, FALSE, FALSE, TRUE)
    IN  /\ audio' = performed("filter_audio", <<FALSE, FALSE, TRUE, FALSE, TRUE>>,
                               <<Command("filter_audio", tool)>>, normalized(result),
                               result.logged_error, FALSE,
                               written(audio.files, "filtered", tool))
        /\ UNCHANGED <<config_vars, session_vars, stream, last, ncalls, nstreams,
                       class_attrs, price_call, pipe, doc, bd, inv, sse, resp>>

FilterAudio == \E tool \in ToolRuns : filter_audio(tool)

ToWav == \E tool \in ToolRuns : to_wav(tool)

\* The route /video/generate_srt up to the transcription: the upload is
\* saved to a new directory, the audio extracted, and transcribe_to_srt
\* called unless the path returned is empty or names no file (HTTP 500).
generate_srt_route(is_audio, tool) ==
    LET done == extract_audio(is_audio, tool, {})
        go_on == done.returned.kind = "path" /\ done.exists
    IN  /\ audio' = performed("generate_srt", <<FALSE, FALSE, TRUE, FALSE, TRUE>>, done.commands,
                               IF go_on THEN done.returned ELSE Returned("HTTP 500", 0),
                               done.logged_error, go_on, done.files)
        /\ UNCHANGED <<config_vars, session_vars, stream, last, ncalls, nstreams,
                       class_attrs, price_call, pipe, doc, bd, inv, sse, resp>>

GenerateSrtRoute == \E is_audio \in BOOLEAN, tool \in ToolRuns : generate_srt_route(is_audio, tool)

\* to_mp4 giving up after the hardware encoder failed.
to_mp4_no_fallback(src_is_file, resolution_ok, use_nvenc, first, second) ==
    IF ~src_is_file \/ ~resolution_ok
    THEN audio' = performed("to_mp4", <<TRUE, FALSE, TRUE, use_nvenc, FALSE>>, <<>>,
                            Returned("None", 0), FALSE, FALSE, audio.files)
    ELSE LET result == run_command(first.returncode, TRUE, FALSE, TRUE)
         IN  audio' = performed("to_mp4", <<TRUE, FALSE, TRUE, use_nvenc, TRUE>>,
                                <<Command(IF use_nvenc THEN "h264_nvenc" ELSE "libx264", first)>>,
                                IF result.returned.returncode # 0
                                THEN Returned("None", 0) ELSE Returned("path", 0),
                                FALSE, FALSE, written(audio.files, "mp4", first))

\* to_mp4: None for a missing input or a malformed resolution; else the
\* command with the encoder chosen, the libx264 command after an h264_nvenc
\* command that exited non-zero, and None where the last result is None or
\* has an exit code other than 0.
to_mp4(src_is_file, resolution_ok, use_nvenc, first, second) ==
    IF ~src_is_file \/ ~resolution_ok
    THEN audio' = performed("to_mp4", <<TRUE, FALSE, TRUE, use_nvenc, FALSE>>, <<>>,
                            Returned("None", 0), FALSE, FALSE, audio.files)
    ELSE LET result == run_command(first.returncode, TRUE, FALSE, TRUE)
             retry == result.returned.returncode # 0 /\ use_nvenc
             result2 == IF retry THEN run_command(second.returncode, TRUE, FALSE, TRUE) ELSE result
             failed == result2.returned.kind = "None" \/ result2.returned.returncode # 0
         IN  audio' = performed("to_mp4", <<TRUE, FALSE, TRUE, use_nvenc, TRUE>>,
                                <<Command(IF use_nvenc THEN "h264_nvenc" ELSE "libx264", first)>>
                                  \o (IF retry THEN <<Command("libx264", second)>> ELSE <<>>),
                                IF failed THEN Returned("None", 0) ELSE Returned("path", 0),
                                result.logged_error \/ result2.logged_error, FALSE,
                                IF retry
                                THEN written(written(audio.files, "mp4", first), "mp4", second)
                                ELSE written(audio.files, "mp4", first))

ToMp4 ==
    \E src_is_file \in BOOLEAN, resolution_ok \in BOOLEAN, use_nvenc \in BOOLEAN,
       first \in ToolRuns, second \in ToolRuns :
        /\ to_mp4(src_is_file, resolution_ok, use_nvenc, first, second)
        /\ UNCHANGED <<config_vars, session_vars, stream, last, ncalls, nstreams,
                       class_attrs, price_call, pipe, doc, bd, inv, sse, resp>>

AudioNext == RunCommand \/ ToWav \/ ExtractAudio \/ FilterAudio \/ GenerateSrtRoute \/ ToMp4

SpecAudio == PipelineInit /\ [][AudioNext]_vars

\* ------------------------------------------------ concurrent invocations
\*
\* SpecInvocations: requests to /video/generate_srt (its correction step), to
\* /gpt/breakdown and to /gpt/custom_breakdown served at the same time.  A
\* step is one statement of one invocation; the steps of different
\* invocations interleave in every order.

BreakdownKinds == {"breakdown", "custom_breakdown"}

\* GptModel.__init__ called by invocation i: a new object, its history the
\* system message (that of the transcriber, that of the explainer, or the
\* sysMsg of the request), nothing requested.
GptModel_init(state, i) ==
    LET kind == state.procs[i].kind
        system_message == IF kind = "correction" THEN state.transcriber.gpt_sys_msg
                          ELSE IF kind = "breakdown" THEN state.explainer.sys_msg
                          ELSE "custom"
    IN  [constructed_by |-> i,
         messages |-> <<[role |-> "system", content |-> system_message]>>,
         request_count |-> 0, total_tokens |-> None]

\* Mutant: explain works on the GptModel of the service (self.model).
explain_model_of_service(state, i) ==
    [address |-> 0, sessions |-> state.sessions]

\* Mutant: the retry works on the GptModel of the first attempt where that
\* was built.
explain_model_of_invocation(state, i) ==
    LET first == 2 * (i - 1) + 1
        a == 2 * (i - 1) + state.procs[i].attempt
    IN  IF state.procs[i].attempt = 2 /\ state.sessions[first].constructed_by = i
        THEN [address |-> first, sessions |-> state.sessions]
        ELSE [address |-> a,
              sessions |-> [state.sessions EXCEPT ![a] = GptModel_init(state, i)]]

\* model = GptModel(self.version, ...) in explain, explain_custom,
\* explain_sentence and explain_sentence_custom: the object the attempt works
\* on, and the objects that exist after.
explain_model(state, i) ==
    LET a == 2 * (i - 1) + state.procs[i].attempt
    IN  [address |-> a,
         sessions |-> [state.sessions EXCEPT ![a] = GptModel_init(state, i)]]

\* model = GptModel(**kwargs) in gpt_fix_srt.
fix_model(state, i) ==
    LET a == 2 * (i - 1) + 1
    IN  [address |-> a,
         sessions |-> [state.sessions EXCEPT ![a] = GptModel_init(state, i)]]

\* An exception in an attempt: the breakdown routes try once more after the
\* first, gpt_fix_srt and the second attempt end the invocation.
attempt_raised(proc) ==
    IF proc.kind \in BreakdownKinds /\ proc.attempt = 1
    THEN [proc EXCEPT !.pc = "attempt", !.attempt = 2, !.session = -1]
    ELSE [proc EXCEPT !.pc = "failed"]

\* A request arrives at one of the routes.
Invoke(i) ==
    /\ inv.procs[i].pc = "idle"
    /\ \E kind \in {"correction"} \cup BreakdownKinds :
         inv' = [inv EXCEPT !.procs[i] = [kind |-> kind, pc |-> "attempt", attempt |-> 1,
                                          session |-> -1, requests |-> <<>>]]
    /\ UNCHANGED <<config_vars, session_vars, stream, last, ncalls, nstreams,
                   class_attrs, price_call, pipe, doc, bd, audio, sse, resp>>

\* The invocation makes its GptModel; or the attempt raises before it has
\* one: the constructor (no key), or in a breakdown word_lookup.
Construct(i) ==
    /\ inv.procs[i].pc = "attempt"
    /\ \/ inv' = [inv EXCEPT !.procs[i] = attempt_raised(@)]
       \/ LET made == IF inv.procs[i].kind = "correction"
                      THEN fix_model(inv, i) ELSE explain_model(inv, i)
          IN  inv' = [inv EXCEPT !.sessions = made.sessions,
                                 !.procs[i].pc = "constructed",
                                 !.procs[i].session = made.address]
    /\ UNCHANGED <<config_vars, session_vars, stream, last, ncalls, nstreams,
                   class_attrs, price_call, pipe, doc, bd, audio, sse, resp>>

\* model.request(prompt) up to the provider call: the prompt (the subtitle
\* text, the sentence, or on the retry the cleaned sentence) is stored, the
\* context test made and the history sent.  The invocation notes the object
\* it worked on and what it found there.
Send(i) ==
    /\ inv.procs[i].pc = "constructed"
    /\ LET proc == inv.procs[i]
           a == proc.session
           found == inv.sessions[a]
           prompt == IF proc.kind = "correction" THEN "srt"
                     ELSE IF proc.attempt = 1 THEN "sentence" ELSE "cleaned sentence"
           check == context_check(found.request_count, found.total_tokens, max_context)
           noted == [session |-> a, constructed_by |-> found.constructed_by,
                     history |-> found.messages, request_count |-> found.request_count,
                     outcome |-> check]
           stored == [inv EXCEPT
                        !.sessions[a].messages = Append(@, format_input(prompt)),
                        !.procs[i].requests = Append(@, noted)]
       IN  inv' = IF check = "pass"
                  THEN [stored EXCEPT !.procs[i].pc = "sent"]
                  ELSE [stored EXCEPT !.procs[i] = attempt_raised(@)]
    /\ UNCHANGED <<config_vars, session_vars, stream, last, ncalls, nstreams,
                   class_attrs, price_call, pipe, doc, bd, audio, sse, resp>>

\* The provider call returns and request commits the reply, which reports a
\* total of 1 token or one that fills the context; or the call raises.
Receive(i) ==
    /\ inv.procs[i].pc = "sent"
    /\ LET a == inv.procs[i].session
       IN  \/ inv' = [inv EXCEPT !.procs[i] = attempt_raised(@)]
           \/ \E tokens \in {1, max_context} :
                inv' = [inv EXCEPT
                          !.sessions[a].messages = Append(@, format_output("reply")),
                          !.sessions[a].request_count = @ + 1,
                          !.sessions[a].total_tokens = token_update(@, tokens),
                          !.procs[i].pc = "done"]
    /\ UNCHANGED <<config_vars, session_vars, stream, last, ncalls, nstreams,
                   class_attrs, price_call, pipe, doc, bd, audio, sse, resp>>

InvocationsNext ==
    \E i \in 1..MaxInvocations : Invoke(i) \/ Construct(i) \/ Send(i) \/ Receive(i)

SpecInvocations == PipelineInit /\ [][InvocationsNext]_vars

\* ------------------------------------------------------- streamed chat
\*
\* SpecSse: the generator sse_gen that POST /gpt/stream hands to its
\* StreamingResponse.  A step is the generator running up to its next yield
\* or to its end.

\* What the provider delivers to one streamed chat: the contents of its
\* chunks; "" is a chunk without text.
SseStreams == UNION { [1..n -> {"", "a", "b"}] : n \in 0..MaxChunks }

\* Mutant: generate_reply hands None back where the session or the provider
\* failed, and sse_gen raises its HTTPException.
reply_broken_off_refused(emitted) == emitted

\* The reply breaks off: generate_reply has caught the exception and ended,
\* the loop of sse_gen ends as with a reply read to its end, and the done
\* event is yielded.
reply_broken_off(emitted) == Append(emitted, "event: done\ndata:\n\n")

\* sse_gen(version, system_message, prompt) is called and its generator
\* handed to the response.  What the session and the provider are going to
\* do is fixed here: whether GptModel can be constructed, the chunks, and
\* after how many chunks the provider raises (0: at create; -1: never).
SseGen ==
    /\ sse.pc = "idle"
    /\ \E construct_ok \in BOOLEAN, chunks \in SseStreams :
         \E raise_at \in (IF construct_ok THEN -1..Len(chunks) ELSE {-1}) :
           sse' = [pc |-> "created", construct_ok |-> construct_ok, chunks |-> chunks,
                   raise_at |-> raise_at, consumed |-> 0, delivered |-> <<>>,
                   emitted |-> <<>>]
    /\ UNCHANGED <<config_vars, session_vars, stream, last, ncalls, nstreams,
                   class_attrs, price_call, pipe, doc, bd, audio, inv, resp>>

\* The first next(): generate_reply(...) is a generator, which is true, so
\* the loop is entered and GptModel constructed.
SseStart ==
    /\ sse.pc = "created"
    /\ sse' = IF sse.construct_ok
              THEN [sse EXCEPT !.pc = "streaming"]
              ELSE [sse EXCEPT !.pc = "done", !.emitted = reply_broken_off(@)]
    /\ UNCHANGED <<config_vars, session_vars, stream, last, ncalls, nstreams,
                   class_attrs, price_call, pipe, doc, bd, audio, inv, resp>>

\* The provider delivers a chunk: stream_request yields its text if it has
\* any, generate_reply passes it on, sse_gen yields f"data: {chunk}\n\n".
SseChunk ==
    /\ sse.pc = "streaming"
    /\ sse.consumed < Len(sse.chunks)
    /\ sse.raise_at # sse.consumed
    /\ LET text == sse.chunks[sse.consumed + 1]
       IN  sse' = IF text # ""
                  THEN [sse EXCEPT !.consumed = @ + 1,
                                   !.delivered = Append(@, text),
                                   !.emitted = Append(@, "data: " \o text \o "\n\n")]
                  ELSE [sse EXCEPT !.consumed = @ + 1]
    /\ UNCHANGED <<config_vars, session_vars, stream, last, ncalls, nstreams,
                   class_attrs, price_call, pipe, doc, bd, audio, inv, resp>>

\* The provider raises, at create or while the stream is read.
SseProviderRaises ==
    /\ sse.pc = "streaming"
    /\ sse.raise_at = sse.consumed
    /\ sse' = [sse EXCEPT !.pc = "done", !.emitted = reply_broken_off(@)]
    /\ UNCHANGED <<config_vars, session_vars, stream, last, ncalls, nstreams,
                   class_attrs, price_call, pipe, doc, bd, audio, inv, resp>>

\* The provider's stream ends: the loops end and sse_gen yields its last
\* event.
SseEnd ==
    /\ sse.pc = "streaming"
    /\ sse.consumed = Len(sse.chunks)
    /\ sse.raise_at # sse.consumed
    /\ sse' = [sse EXCEPT !.pc = "done", !.emitted = Append(@, "event: done\ndata:\n\n")]
    /\ UNCHANGED <<config_vars, session_vars, stream, last, ncalls, nstreams,
                   class_attrs, price_call, pipe, doc, bd, audio, inv, resp>>

\* The next() after the last event: the generator returns.
SseClose ==
    /\ sse.pc = "done"
    /\ sse' = [sse EXCEPT !.pc = "closed"]
    /\ UNCHANGED <<config_vars, session_vars, stream, last, ncalls, nstreams,
                   class_attrs, price_call, pipe, doc, bd, audio, inv, resp>>

SseNext == SseGen \/ SseStart \/ SseChunk \/ SseProviderRaises \/ SseEnd \/ SseClose

\* The response reads its generator until it returns, and the provider's
\* stream delivers, ends or raises.
SpecSseFair ==
    /\ PipelineInit
    /\ [][SseNext]_vars
    /\ WF_vars(SseStart \/ SseChunk \/ SseProviderRaises \/ SseEnd \/ SseClose)

\* ------------------------------------------------- response with a task
\*
\* SpecTask: the generator of stream_response_with_task and the thread of
\* its task.  The steps of the two interleave in every order.  What the
\* generator yields is noted with where it came from and the state of the
\* task at that moment.

\* stream_response_with_task(path, task_func, filename) is called and its
\* generator handed to the response.  What task_func is going to do is fixed
\* here: the chunks it writes, and whether it raises after them.
StreamResponseWithTask ==
    /\ resp.pc = "idle"
    /\ \E writes \in 0..MaxFileChunks, raises \in BOOLEAN :
         resp' = [resp EXCEPT !.pc = "created", !.writes = writes, !.raises = raises]
    /\ UNCHANGED <<config_vars, session_vars, stream, last, ncalls, nstreams,
                   class_attrs, price_call, pipe, doc, bd, audio, inv, sse>>

\* The first step of the generator: the task is created, is not done, and
\* the generator sleeps.
GenStart ==
    /\ resp.pc = "created"
    /\ resp' = [resp EXCEPT !.pc = "sleeping", !.task = "running"]
    /\ UNCHANGED <<config_vars, session_vars, stream, last, ncalls, nstreams,
                   class_attrs, price_call, pipe, doc, bd, audio, inv, sse>>

\* The thread of the task writes the next chunk of the file.
TaskWrite ==
    /\ resp.task = "running"
    /\ Len(resp.file) < resp.writes
    /\ resp' = [resp EXCEPT !.file = Append(@, "c" \o ToString(Len(@) + 1))]
    /\ UNCHANGED <<config_vars, session_vars, stream, last, ncalls, nstreams,
                   class_attrs, price_call, pipe, doc, bd, audio, inv, sse>>

\* task_func returns or raises.
TaskEnd ==
    /\ resp.task = "running"
    /\ Len(resp.file) = resp.writes
    /\ resp' = [resp EXCEPT !.task = IF resp.raises THEN "raised" ELSE "done"]
    /\ UNCHANGED <<config_vars, session_vars, stream, last, ncalls, nstreams,
                   class_attrs, price_call, pipe, doc, bd, audio, inv, sse>>

\* The sleep of keepalive_interval is over: yield b" ".
GenWake ==
    /\ resp.pc = "sleeping"
    /\ resp.task # "running" \/ Len(resp.emitted) < MaxKeepalives
    /\ resp' = [resp EXCEPT !.pc = "yielded",
                            !.emitted = Append(@, [from |-> "keepalive", data |-> " ",
                                                   task |-> resp.task])]
    /\ UNCHANGED <<config_vars, session_vars, stream, last, ncalls, nstreams,
                   class_attrs, price_call, pipe, doc, bd, audio, inv, sse>>

\* Mutant: the generator goes on to the file as soon as there is one.
GenCheck_on_file ==
    /\ resp.pc = "yielded"
    /\ resp' = IF resp.file = <<>> /\ resp.task = "running"
               THEN [resp EXCEPT !.pc = "sleeping"]
               ELSE IF resp.task = "raised"
               THEN [resp EXCEPT !.pc = "raised"]
               ELSE [resp EXCEPT !.pc = "streaming"]
    /\ UNCHANGED <<config_vars, session_vars, stream, last, ncalls, nstreams,
                   class_attrs, price_call, pipe, doc, bd, audio, inv, sse>>

\* The generator is resumed after its keepalive: while not task.done() it
\* sleeps again; else await task raises what the task raised, or the file
\* is opened.
GenCheck ==
    /\ resp.pc = "yielded"
    /\ resp' = IF resp.task = "running"
               THEN [resp EXCEPT !.pc = "sleeping"]
               ELSE IF resp.task = "raised"
               THEN [resp EXCEPT !.pc = "raised"]
               ELSE [resp EXCEPT !.pc = "streaming"]
    /\ UNCHANGED <<config_vars, session_vars, stream, last, ncalls, nstreams,
                   class_attrs, price_call, pipe, doc, bd, audio, inv, sse>>

\* f.read(8192): the next chunk of the file is yielded, or at its end the
\* generator returns.
GenRead ==
    /\ resp.pc = "streaming"
    /\ resp' = IF resp.position < Len(resp.file)
               THEN [resp EXCEPT !.position = @ + 1,
                                 !.emitted = Append(@, [from |-> "file",
                                                        data |-> resp.file[resp.position + 1],
                                                        task |-> resp.task])]
               ELSE [resp EXCEPT !.pc = "closed"]
    /\ UNCHANGED <<config_vars, session_vars, stream, last, ncalls, nstreams,
                   class_attrs, price_call, pipe, doc, bd, audio, inv, sse>>

TaskNext ==
    \/ StreamResponseWithTask
    \/ GenStart
    \/ TaskWrite
    \/ TaskEnd
    \/ GenWake
    \/ GenCheck
    \/ GenRead

SpecTask == PipelineInit /\ [][TaskNext]_vars

\* ----------------------------------------------------- views of the state

Inputs == heap[inputs]
Outputs == heap[outputs]
RequestsInfo == heap[requests_info]

\* The content of a sessions_info entry: its lists read through heap h.
Archived(h, e) ==
    [e EXCEPT !.inputs = h[e.inputs], !.outputs = h[e.outputs],
              !.requests_info = h[e.requests_info]]

\* The statistics new_session has to archive, by value.
LiveStatistics ==
    [total_tokens |-> total_tokens, total_price |-> total_price,
     inputs |-> Inputs, outputs |-> Outputs, requests_info |-> RequestsInfo,
     input_tokens |-> input_tokens, output_tokens |-> output_tokens,
     request_count |-> request_count]

\* The session's total tokens have reached the ceiling.
Exhausted == ~IsNone(total_tokens) /\ Val(total_tokens) >= window_token_limit

\* This step is the call of op ("request", "stream_request", "new_session").
CallStep(op) == ncalls' = ncalls + 1 /\ last'.op = op

CountersUnchanged ==
    UNCHANGED <<total_price, total_tokens, input_tokens, output_tokens, request_count>>

RECURSIVE SumOf(_, _)
SumOf(records, key) ==
    IF records = <<>> THEN 0 ELSE records[1][key] + SumOf(Tail(records), key)

\* This step is a direct call of response_price.
PriceStep == ~price_call.called /\ price_call'.called

\* The contents of the turns of one role, in order.
TurnsOf(msgs, role) ==
    LET turns == SelectSeq(msgs, LAMBDA t : t.role = role)
    IN  [i \in 1..Len(turns) |-> turns[i].content]

\* The texts of a sequence joined in order.
RECURSIVE Concat(_)
Concat(texts) == IF texts = <<>> THEN "" ELSE Head(texts) \o Concat(Tail(texts))

\* This step ends a stream_request that was consumed to its end.
StreamEndStep == stream.state = "open" /\ stream'.state = "idle" /\ last'.outcome = "ok"

\* This step is one of a stream_request: its call or a step of its generator.
StreamStep == CallStep("stream_request") \/ stream.state = "open"

\* ------------------------------------------------------------------ claims

\* C1 (as claimed): a request made in an Exhausted session fails with the
\* context-exceeded error and leaves the message history, the input log and
\* every counter as they were.
C1_ExhaustedRequestChangesNothing ==
    [][(Exhausted /\ CallStep("request")) =>
         /\ last'.outcome = "Max Context Exceeded"
         /\ messages' = messages
         /\ heap'[inputs'] = Inputs
         /\ CountersUnchanged]_vars

\* C2 (as claimed): a request whose provider call or response parsing fails
\* leaves request_count, messages and the counters as they were.
C2_FailedRequestChangesNothing ==
    [][(CallStep("request") /\ last'.outcome = "Error Requesting") =>
         /\ messages' = messages
         /\ CountersUnchanged]_vars

\* C3 (as claimed): in an Exhausted session no stream_request reaches the
\* provider.
C3_ExhaustedStreamRefused ==
    [][(Exhausted /\ CallStep("stream_request")) => ~last'.reached]_vars

\* C4 (as claimed): in every non-exhausted state the exhaustion check lets a
\* request through to the provider: it neither rejects nor aborts it.
C4_NonExhaustedRequestAccepted ==
    [][(~Exhausted /\ CallStep("request")) =>
         /\ last'.reached
         /\ last'.outcome \in {"ok", "Error Requesting"}]_vars

\* C5 (as claimed): new_session leaves the live state equal to that of a new
\* session: history the system message only, token counters unset, price 0,
\* request_count 0, per-request log and finish-reason log empty.
C5_NewSessionResetsAll ==
    [][CallStep("new_session") =>
         /\ messages' = <<sys_msg>>
         /\ IsNone(total_tokens') /\ IsNone(input_tokens') /\ IsNone(output_tokens')
         /\ total_price' = 0
         /\ request_count' = 0
         /\ heap'[requests_info'] = <<>>
         /\ text_finishin_reasons' = <<>>]_vars

\* C6: each new_session appends exactly one entry to sessions_info, which
\* holds the statistics the session had just before the reset; the entries
\* archived earlier keep their position and content.
C6_NewSessionArchivesOnce ==
    [][CallStep("new_session") =>
         /\ Len(sessions_info') = Len(sessions_info) + 1
         /\ Archived(heap', sessions_info'[Len(sessions_info')]) = LiveStatistics
         /\ \A i \in 1..Len(sessions_info) :
               Archived(heap', sessions_info'[i]) = Archived(heap, sessions_info[i])]_vars

\* C6 witness: a second new_session has archived a session, the first entry
\* being a session that had served a request.
C6_Witness ==
    /\ last.op = "new_session"
    /\ Len(sessions_info) = 2
    /\ sessions_info[1].request_count > 0
    /\ Len(heap[sessions_info[1].inputs]) > 0

\* C7: no step of request, stream_request or new_session changes the content
\* of an entry already in sessions_info.
C7_ArchiveIsolated ==
    [][\A i \in 1..Len(sessions_info) :
          /\ i <= Len(sessions_info')
          /\ Archived(heap', sessions_info'[i]) = Archived(heap, sessions_info[i])]_vars

\* C7 witness: after a session with a served request was archived, the live
\* session has been written to again.
C7_Witness ==
    /\ Len(sessions_info) >= 1
    /\ Len(heap[sessions_info[1].outputs]) > 0
    /\ Len(Inputs) > 0
    /\ Len(Outputs) > 0
    /\ Outputs # heap[sessions_info[1].outputs]

\* C8: an Exhausted session stays Exhausted under every step but new_session,
\* every request made in it fails with the context-exceeded error, and the
\* request that follows a new_session passes the context test.
C8_ExhaustedUntilNewSession ==
    [][/\ (Exhausted /\ CallStep("request")) =>
             (last'.outcome = "Max Context Exceeded" /\ ~last'.reached)
       /\ (Exhausted /\ ~CallStep("new_session")) => Exhausted'
       /\ (Exhausted /\ CallStep("new_session")) => ~Exhausted'
       /\ (last.op = "new_session" /\ CallStep("request")) => last'.reached]_vars

\* C8 witness: the session archived last was Exhausted, and the one request
\* made since the new_session was served.
C8_Witness ==
    /\ Len(sessions_info) >= 1
    /\ LET e == sessions_info[Len(sessions_info)]
       IN  ~IsNone(e.total_tokens) /\ Val(e.total_tokens) >= window_token_limit
    /\ last.op = "request"
    /\ last.outcome = "ok"
    /\ Len(Inputs) = 1

\* C9: a successful request appends the user turn of the prompt and then the
\* assistant turn of the response to the history, one RequestRecord and one
\* finish-reason entry, adds 1 to request_count, and returns the prompt with
\* the provider's text.
C9_SuccessfulRequestCommits ==
    [][(CallStep("request") /\ last'.outcome = "ok") =>
         /\ last'.response = last'.reply.content
         /\ messages' = messages \o << [role |-> "user", content |-> last'.prompt],
                                       [role |-> "assistant", content |-> last'.response] >>
         /\ Len(heap'[requests_info']) = Len(RequestsInfo) + 1
         /\ Len(text_finishin_reasons') = Len(text_finishin_reasons) + 1
         /\ request_count' = request_count + 1]_vars

\* C9 witness: a second request of a session has been served.
C9_Witness ==
    /\ last.op = "request"
    /\ last.outcome = "ok"
    /\ request_count = 2
    /\ Len(messages) = 5

\* C10 (as claimed): the input, output and total token counters equal the
\* sums of the token counts of the session's RequestRecords.
C10_CountersAreSums ==
    Len(RequestsInfo) > 0 =>
        /\ input_tokens = Some(SumOf(RequestsInfo, "prompt_tokens"))
        /\ output_tokens = Some(SumOf(RequestsInfo, "output_tokens"))
        /\ total_tokens = Some(SumOf(RequestsInfo, "total_tokens"))

\* C10 (amended): the input, output and total token counters equal the token
\* counts of the session's last RequestRecord, and are unset while the session
\* has none.
C10_CountersAreLastRecord ==
    IF Len(RequestsInfo) = 0
    THEN IsNone(input_tokens) /\ IsNone(output_tokens) /\ IsNone(total_tokens)
    ELSE LET r == RequestsInfo[Len(RequestsInfo)]
         IN  /\ input_tokens = Some(r.prompt_tokens)
             /\ output_tokens = Some(r.output_tokens)
             /\ total_tokens = Some(r.total_tokens)

\* C10 witness: a session with two RequestRecords.
C10_Witness ==
    /\ Len(RequestsInfo) = 2
    /\ RequestsInfo[1].total_tokens # RequestsInfo[2].total_tokens

\* C11: total_price is the sum of the price fields of the session's
\* RequestRecords (0 when there is none), and each record's price is
\* prompt_tokens times the input price per token plus output_tokens times the
\* output price per token of the session's model.
C11_PriceIsSumOfRecords ==
    /\ total_price = SumOf(RequestsInfo, "price")
    /\ \A i \in 1..Len(RequestsInfo) :
          LET r == RequestsInfo[i]
          IN  r.price = r.prompt_tokens * pricing_dict[model].input
                        + r.output_tokens * pricing_dict[model].output

\* C11 witness: a session with two RequestRecords of different prices whose
\* token counts make the two prices of the model count differently.
C11_Witness ==
    /\ Len(RequestsInfo) = 2
    /\ RequestsInfo[1].price # RequestsInfo[2].price
    /\ RequestsInfo[2].prompt_tokens # RequestsInfo[2].output_tokens
    /\ total_price = RequestsInfo[1].price + RequestsInfo[2].price

\* C12: for every model of the pricing table, response_price(model, 10^6, 0)
\* is the model's per-million input price and response_price(model, 0, 10^6)
\* its per-million output price (a per-million price p of pricing_dict is
\* p * 10^6 in the unit of the result); the result is a function of the three
\* arguments alone, whatever the state of the session, and the call changes
\* no state.
C12_PerMillionPrices ==
    [][PriceStep =>
         LET c == price_call'
             priced == c.model \in DOMAIN pricing_dict
         IN  /\ (priced /\ c.input_tokens = Million /\ c.output_tokens = 0) =>
                    (c.ok /\ c.price = pricing_dict[c.model].input * Million)
             /\ (priced /\ c.input_tokens = 0 /\ c.output_tokens = Million) =>
                    (c.ok /\ c.price = pricing_dict[c.model].output * Million)
             /\ c.ok = priced
             /\ priced =>
                    c.price = c.input_tokens * pricing_dict[c.model].input
                              + c.output_tokens * pricing_dict[c.model].output
             /\ UNCHANGED <<config_vars, session_vars, stream, last, ncalls,
                            nstreams, class_attrs, pipe>>]_vars

\* C12 witness: response_price("gpt-4o", 10^6, 0) has returned 2.5 dollars,
\* called after a served request of a session of another model.
C12_Witness ==
    /\ price_call.called
    /\ price_call.model = "gpt-4o"
    /\ price_call.input_tokens = Million
    /\ price_call.output_tokens = 0
    /\ price_call.price = 50 * Million
    /\ model = "gpt-4o-mini"
    /\ request_count = 1
    /\ total_price > 0

\* C13: response_price fails, saying the model is not supported, for every
\* identifier outside model_versions and returns a price for every identifier
\* in it (every registered model has an entry in pricing_dict); no step of
\* any operation changes model_versions or pricing_dict.
C13_RegistryDecidesPrice ==
    [][/\ class_attrs' = class_attrs
       /\ class_attrs.model_versions = model_versions
       /\ class_attrs.model_versions \subseteq DOMAIN class_attrs.pricing_dict
       /\ PriceStep =>
             LET c == price_call'
             IN  IF c.model \in model_versions
                 THEN c.ok /\ c.error = ""
                 ELSE ~c.ok /\ c.error = "not supported"]_vars

\* C13 witness: response_price has refused an identifier that is not
\* registered, called after the session served a request.
C13_Witness ==
    /\ price_call.called
    /\ price_call.model = "gpt-4"
    /\ ~price_call.ok
    /\ price_call.error = "not supported"
    /\ price_call.input_tokens = 1
    /\ Len(RequestsInfo) = 1

C15_WholeHistorySent ==
    [][((CallStep("request") \/ CallStep("stream_request")) /\ last'.reached) =>
         LET sent == last'.sent
         IN  /\ sent = Append(messages, [role |-> "user", content |-> last'.prompt])
             /\ sent[1] = sys_msg
             /\ TurnsOf(sent, "system") = <<sys_msg.content>>
             /\ TurnsOf(sent, "user") = Append(Inputs, last'.prompt)
             /\ TurnsOf(sent, "assistant") = Outputs]_vars

\* C15 witness: the third call of a session, a request, has sent the system
\* message, two earlier exchanges and its prompt.
C15_Witness ==
    /\ last.op = "request"
    /\ last.reached
    /\ Len(last.sent) = 6
    /\ last.sent[2].role = "user"
    /\ last.sent[3].role = "assistant"
    /\ last.sent[5].role = "assistant"
    /\ last.sent[6] = [role |-> "user", content |-> last.prompt]
    /\ nstreams = 1

\* C16: when the consumer has abandoned a stream_request, after no chunk or
\* after any number of them, the history holds no assistant turn of it,
\* outputs and request_count are what they were before the call, and at most
\* the user turn of the prompt has been added to the history.
C16_AbandonedStreamCommitsNothing ==
    (last.op = "stream_request" /\ last.outcome = "abandoned") =>
        /\ Outputs = last.before.outputs
        /\ request_count = last.before.request_count
        /\ TurnsOf(messages, "assistant") = TurnsOf(last.before.messages, "assistant")
        /\ \/ messages = last.before.messages
           \/ messages = Append(last.before.messages,
                                [role |-> "user", content |-> last.prompt])

\* C16 witness: a stream_request made after a served request was abandoned
\* after the provider had been reached and a chunk yielded; the user turn of
\* its prompt is the last of the history.
C16_Witness ==
    /\ last.op = "stream_request"
    /\ last.outcome = "abandoned"
    /\ last.reached
    /\ last.before.request_count = 1
    /\ Len(Outputs) = 1
    /\ Len(messages) = 4
    /\ messages[4] = [role |-> "user", content |-> last.prompt]

\* C17: a stream_request consumed to its end appends exactly one assistant
\* turn, whose content is the concatenation in delivery order of the text
\* increments yielded, and adds 1 to request_count exactly once, after the
\* last increment was yielded: until the end of the stream request_count and
\* the assistant turns are those found by the call.
C17_StreamEndCommitsOnce ==
    [][/\ stream'.state = "open" =>
             /\ request_count' = last'.before.request_count
             /\ heap'[outputs'] = last'.before.outputs
             /\ messages' = Append(last'.before.messages,
                                   [role |-> "user", content |-> last'.prompt])
       /\ StreamEndStep =>
             LET text == Concat(stream.yielded)
             IN  /\ stream.pending = <<>>
                 /\ messages' = Append(messages, [role |-> "assistant", content |-> text])
                 /\ heap'[outputs'] = Append(Outputs, text)
                 /\ request_count' = request_count + 1
                 /\ request_count' = last'.before.request_count + 1
                 /\ last'.response = text]_vars

\* C17 witness: a stream of two increments, "b" then "a", was consumed to
\* its end after a served request.
C17_Witness ==
    /\ last.op = "stream_request"
    /\ last.outcome = "ok"
    /\ last.response = "ba"
    /\ request_count = 2
    /\ Outputs[2] = "ba"
    /\ messages[Len(messages)] = [role |-> "assistant", content |-> "ba"]

\* C18: no step of a stream_request, whether it completes, fails or is
\* abandoned, changes the token counters, total_price, the per-request log
\* or the finish-reason log.
C18_StreamDoesNoAccounting ==
    [][StreamStep =>
         /\ UNCHANGED <<total_tokens, input_tokens, output_tokens, total_price,
                        text_finishin_reasons>>
         /\ heap'[requests_info'] = RequestsInfo]_vars

\* C18 witness: a stream_request was consumed to its end after a served
\* request, and the accounting is still that of the one request.
C18_Witness ==
    /\ last.op = "stream_request"
    /\ last.outcome = "ok"
    /\ last.response # ""
    /\ request_count = 2
    /\ Len(RequestsInfo) = 1
    /\ Len(text_finishin_reasons) = 1
    /\ total_tokens = Some(RequestsInfo[1].total_tokens)
    /\ total_price = RequestsInfo[1].price

\* C19: with correction enabled, a call of transcribe_to_srt whose LLM call
\* fails (no session could be made, the provider raised, or its reply was
\* rejected for its finish condition) returns the failure value and writes no
\* file: the raw document is neither returned nor written where the
\* corrected one was to go.
C19_LlmFailureIsReported ==
    [][(/\ pipe'.called
        /\ pipe'.fix_with_chat_gpt
        /\ \/ pipe'.llm.kind \in {"no key", "raised"}
           \/ /\ pipe'.llm.kind = "reply"
              /\ pipe'.llm.reply.finish_reason \notin
                     {"stop", "length", "function_call", "content_filter", "null"}) =>
           /\ pipe'.result = ReturnNone
           /\ pipe'.files = pipe.files]_vars

\* C19 witness: the provider raised in a call that was to write the
\* corrected file; the call returned None, and output_path still holds the
\* corrected text of an earlier call, which is not this call's raw document.
C19_Witness ==
    /\ pipe.called
    /\ pipe.fix_with_chat_gpt
    /\ ~pipe.string_result
    /\ pipe.llm.kind = "raised"
    /\ pipe.result = ReturnNone
    /\ Val(pipe.raw) # <<>>
    /\ ~IsNone(pipe.files.output)
    /\ pipe.files.output # pipe.raw

\* C20 (as claimed): with correction enabled, a reply of the LLM that does
\* not deserialize into subtitle cues makes the call fail, and a text that
\* does not parse as subtitle cues is neither returned nor written as the
\* result.
C20_UnparsableReplyRejected ==
    [][(pipe'.called /\ pipe'.fix_with_chat_gpt) =>
         /\ (/\ pipe'.llm.kind = "reply"
             /\ ~IsNone(pipe'.llm.reply.content)
             /\ ~parse(Val(pipe'.llm.reply.content)).ok) => pipe'.result = ReturnNone
         /\ pipe'.result.kind = "text" => parse(pipe'.result.text).ok
         /\ pipe'.result.kind = "output_path" => parse(Val(pipe'.files.output)).ok]_vars

\* C21: with correction disabled, a call of transcribe_to_srt that has the
\* segments makes no LLM call and hands on the composed raw text unchanged:
\* it returns it, or writes it to output_path and returns the path (None,
\* with no file written, if the file could not be opened).
C21_UncorrectedIsRaw ==
    [][(pipe'.called /\ ~pipe'.fix_with_chat_gpt /\ ~IsNone(pipe'.raw)) =>
         /\ pipe'.llm = LlmNotCalled
         /\ pipe'.files.nogpt = pipe.files.nogpt
         /\ IF pipe'.string_result
            THEN pipe'.result = ReturnText(Val(pipe'.raw)) /\ pipe'.files = pipe.files
            ELSE \/ pipe'.result = ReturnPath /\ pipe'.files.output = pipe'.raw
                 \/ pipe'.result = ReturnNone /\ pipe'.files = pipe.files]_vars

\* C21 witness: a call without correction has returned the text of two cues
\* as composed, after a corrected call had written other text.
C21_Witness ==
    /\ pipe.called
    /\ ~pipe.fix_with_chat_gpt
    /\ pipe.string_result
    /\ pipe.llm = LlmNotCalled
    /\ ~IsNone(pipe.raw)
    /\ Len(Val(pipe.raw)) = 8
    /\ pipe.result = ReturnText(Val(pipe.raw))
    /\ ~IsNone(pipe.files.output)
    /\ pipe.files.output # pipe.raw

\* C22 (as claimed): when the transcription is the empty segment sequence,
\* the composed text is the empty text, no LLM call is made and the call
\* succeeds with the empty text, whether or not correction was requested.
C22_SilenceIsEmptySuccess ==
    [][(pipe'.called /\ pipe'.raw = Some(<<>>)) =>
         /\ pipe'.llm = LlmNotCalled
         /\ pipe'.string_result => pipe'.result = ReturnText(<<>>)
         /\ ~pipe'.string_result =>
               \/ pipe'.result = ReturnPath /\ pipe'.files.output = Some(<<>>)
               \/ pipe'.result = ReturnNone /\ pipe'.files = pipe.files]_vars

\* The indices a subtitle text lists, in the order it lists them.
IndicesOf(text) ==
    LET index_lines == SelectSeq(text, LAMBDA line : line.kind = "index")
    IN  [k \in 1..Len(index_lines) |-> index_lines[k].index]

RECURSIVE IsMergeOf(_, _)
IsMergeOf(raw, cor) ==
    IF cor = <<>>
    THEN raw = <<>>
    ELSE \E k \in 1..Len(raw) :
            /\ \A i \in 1..k : cor[1].start <= raw[i].start /\ raw[i].end <= cor[1].end
            /\ \E i \in 1..k : cor[1].start = raw[i].start
            /\ \E i \in 1..k : cor[1].end = raw[i].end
            /\ IsMergeOf(SubSeq(raw, k + 1, Len(raw)), Tail(cor))

\* The text a call handed on as its result: the text returned, or the text
\* written to output_path.
ResultText(p) == IF p.result.kind = "text" THEN p.result.text ELSE Val(p.files.output)

\* C25 (as claimed): the corrected text a call hands on holds the cues of
\* the raw text with their times, except that runs of adjacent cues may be
\* merged, a merged cue running from the earliest start to the latest end of
\* its run; no cue is added, split or given other times.
C25_MergeInvariant ==
    [][(pipe'.called /\ pipe'.fix_with_chat_gpt /\ pipe'.result # ReturnNone) =>
         /\ parse(ResultText(pipe')).ok
         /\ IsMergeOf(parse(Val(pipe'.raw)).subs, parse(ResultText(pipe')).subs)]_vars

\* C30: a call of transcribe_to_srt sends at most one request to the LLM;
\* where that request fails the call fails, with no second request and
\* nothing written.
C30_OneLlmCall ==
    [][pipe'.called =>
         /\ pipe'.llm_calls <= 1
         /\ pipe'.llm = LlmRaised =>
               /\ pipe'.llm_calls = 1
               /\ pipe'.result = ReturnNone
               /\ pipe'.files = pipe.files]_vars

C30_Witness ==
    /\ pipe.called
    /\ pipe.fix_with_chat_gpt
    /\ pipe.llm = LlmRaised
    /\ pipe.llm_calls = 1
    /\ pipe.raw # None
    /\ pipe.result = ReturnNone

\* C26: a breakdown request makes at most two attempts: the first with the
\* sentence of the request, a second only after the first raised and then
\* with the cleaned sentence; where the second raises too the response is
\* the error, with no third attempt.
C26_RetryBound ==
    bd.called =>
        /\ Len(bd.attempts) \in 1..2
        /\ bd.attempts[1].sentence = bd.sentence
        /\ Len(bd.attempts) = 2 <=> bd.attempts[1].raised
        /\ Len(bd.attempts) = 2 =>
              /\ bd.attempts[2].sentence = cleaned(bd.sentence)
              /\ bd.attempts[2].raised => bd.status = 500

C26_Witness ==
    /\ bd.called
    /\ Len(bd.attempts) = 2
    /\ bd.attempts[1].error = "lookup"
    /\ bd.attempts[2].error = "provider"
    /\ bd.attempts[2].sentence # bd.sentence
    /\ bd.status = 500

\* C27: a successful breakdown response, of the first attempt or of the
\* retry, carries the sentence of the request, not the cleaned one.
C27_EchoIsOriginal ==
    bd.status = 200 => bd.body.sentence = bd.sentence

C27_Witness ==
    /\ bd.op = "breakdown"
    /\ bd.status = 200
    /\ Len(bd.attempts) = 2
    /\ bd.attempts[2].sentence = Plain
    /\ bd.body.sentence = Parenthesized

\* C28 (as claimed): the sentence with corner brackets, its first attempt
\* having raised, is retried without the brackets.
C28_CornerBracketsRemoved ==
    (bd.called /\ bd.sentence = Bracketed /\ bd.attempts[1].raised) =>
        /\ Len(bd.attempts) = 2
        /\ bd.attempts[2].sentence = Plain

\* C28 (amended): the retry removes the fullwidth parentheses and nothing
\* else: the sentence with fullwidth parentheses is retried without them,
\* and the sentence with corner brackets is retried as it was.
C28_ParenthesesRemoved ==
    (bd.called /\ bd.attempts[1].raised) =>
        /\ Len(bd.attempts) = 2
        /\ bd.sentence = Parenthesized => bd.attempts[2].sentence = Plain
        /\ bd.sentence = Bracketed => bd.attempts[2].sentence = Bracketed

C28_Witness ==
    /\ bd.called
    /\ bd.sentence = Parenthesized
    /\ bd.attempts[1].raised
    /\ Len(bd.attempts) = 2
    /\ bd.attempts[2].sentence = Plain

\* C29 (as claimed): where the first attempt of a breakdown request fails
\* for the configuration (no API key, or a model version that is not
\* supported), the request fails with no second attempt.
C29_ConfigurationErrorNotRetried ==
    (bd.called /\ bd.attempts[1].error = "configuration") =>
        /\ Len(bd.attempts) = 1
        /\ bd.status = 500

\* C31: where the speech model raises, at the call or after it has yielded
\* some segments, transcribe_to_srt fails: no subtitle text is built from the
\* segments it got, nothing is written, and the LLM is not called.
C31_SpeechFailureIsFailure ==
    [][(pipe'.called /\ pipe'.speech.kind = "raised") =>
         /\ pipe'.result = ReturnNone
         /\ IsNone(pipe'.raw)
         /\ pipe'.llm = LlmNotCalled
         /\ pipe'.llm_calls = 0
         /\ pipe'.files = pipe.files]_vars

C31_Witness ==
    /\ pipe.called
    /\ pipe.fix_with_chat_gpt
    /\ pipe.speech = [kind |-> "raised", yielded |-> 1]
    /\ pipe.result = ReturnNone
    /\ IsNone(pipe.raw)

\* Some command of the last operation exited with a code other than 0.
ToolFailed == \E i \in 1..Len(audio.commands) : audio.commands[i].returncode # 0

\* C32 (as claimed): where the codec tool exits non-zero, extract_audio and
\* filter_audio return None instead of an output path, and the route does
\* not go on to the transcription.
C32_ToolFailureIsFailure ==
    ToolFailed =>
        /\ audio.op \in {"extract_audio", "filter_audio"} => audio.returned.kind = "None"
        /\ audio.op = "generate_srt" => ~audio.transcribed

\* C33: a call of to_mp4 that gets to the encoder (the input is a file and
\* the resolution is well formed) runs, with use_nvenc, the h264_nvenc
\* command first and the libx264 command once exactly where the first
\* exited non-zero; without use_nvenc it runs the libx264 command alone.  It
\* returns None exactly where the last command run exited non-zero, and it
\* never runs more than two commands.
C33_EncoderFallback ==
    (audio.op = "to_mp4" /\ audio.input_ok) =>
        LET n == Len(audio.commands)
        IN  /\ n \in 1..2
            /\ audio.use_nvenc =>
                  /\ audio.commands[1].name = "h264_nvenc"
                  /\ n = 2 <=> audio.commands[1].returncode # 0
                  /\ n = 2 => audio.commands[2].name = "libx264"
            /\ ~audio.use_nvenc => n = 1 /\ audio.commands[1].name = "libx264"
            /\ audio.returned.kind = "None" <=> audio.commands[n].returncode # 0
            /\ audio.returned.kind \in {"None", "path"}

C33_Witness ==
    /\ audio.op = "to_mp4"
    /\ audio.use_nvenc
    /\ Len(audio.commands) = 2
    /\ audio.commands[1].returncode # 0
    /\ audio.commands[2] = [name |-> "libx264", returncode |-> 0]
    /\ audio.returned.kind = "path"

\* C35 (as claimed): run_command returns None and logs the error whenever
\* the subprocess exits non-zero, and returns a completed process only where
\* it exited with 0, whatever check, capture_output and hide_and_log are.
C35_NoneOnFailure ==
    audio.op = "run_command" =>
        /\ ToolFailed => audio.returned.kind = "None" /\ audio.logged_error
        /\ audio.returned.kind = "CompletedProcess" => audio.returned.returncode = 0

\* C36: a request that is rejected as exhausted, or that fails in the provider
\* call or in the parsing of the reply, extends inputs and messages by the
\* submitted prompt and changes nothing else: outputs, the per-request log,
\* the token counters, the price, request_count, the finish-reason log and
\* sessions_info (and what its entries hold) are as before.
C36_RaisedRequestKeepsPromptOnly ==
    [][(CallStep("request") /\ last'.outcome \in {"Max Context Exceeded", "Error Requesting"}) =>
         /\ heap'[inputs'] = Append(Inputs, last'.prompt)
         /\ messages' = Append(messages, [role |-> "user", content |-> last'.prompt])
         /\ heap'[outputs'] = Outputs
         /\ heap'[requests_info'] = RequestsInfo
         /\ CountersUnchanged
         /\ text_finishin_reasons' = text_finishin_reasons
         /\ Len(sessions_info') = Len(sessions_info)
         /\ \A i \in 1..Len(sessions_info) :
                Archived(heap', sessions_info'[i]) = Archived(heap, sessions_info[i])]_vars

\* A request was rejected as exhausted in a session with an archived session
\* and earlier turns; it left its prompt behind.
C36_Witness ==
    /\ last.op = "request"
    /\ last.outcome = "Max Context Exceeded"
    /\ Len(sessions_info) > 0
    /\ Len(Outputs) > 0
    /\ Len(Inputs) = Len(Outputs) + 1
    /\ Inputs[Len(Inputs)] = last.prompt

\* C37: in every state the history starts with the session's system message,
\* its user turns are inputs in order, its assistant turns are outputs in
\* order, request_count is the number of outputs, and the per-request log is
\* no longer than request_count.
C37_HistoryConsistent ==
    /\ Len(messages) >= 1
    /\ messages[1] = sys_msg
    /\ TurnsOf(messages, "system") = <<sys_msg.content>>
    /\ TurnsOf(messages, "user") = Inputs
    /\ TurnsOf(messages, "assistant") = Outputs
    /\ request_count = Len(Outputs)
    /\ Len(RequestsInfo) <= request_count

\* After a completed stream_request and a request that raised: an output that
\* has no record in the per-request log, and a user turn without a reply.
C37_Witness ==
    /\ last.op = "request"
    /\ last.outcome # "ok"
    /\ request_count = 1
    /\ RequestsInfo = <<>>
    /\ Len(Inputs) = 2
    /\ Len(messages) = 4

\* C38: every LLM request of the correction step and of the breakdown routes,
\* the one of the retry included, finds a session whose history is the system
\* message only and whose request_count is 0, and passes the context test.
C38_RequestsOnNewSessions ==
    \A i \in 1..MaxInvocations :
        \A k \in 1..Len(inv.procs[i].requests) :
            LET r == inv.procs[i].requests[k]
            IN  /\ Len(r.history) = 1
                /\ r.history[1].role = "system"
                /\ r.request_count = 0
                /\ r.outcome = "pass"

\* A breakdown whose first attempt failed at the provider has sent its retry,
\* while another invocation has been answered with a reply that fills the
\* context.
C38_Witness ==
    \E i, j \in 1..MaxInvocations :
        /\ i # j
        /\ inv.procs[i].kind \in BreakdownKinds
        /\ Len(inv.procs[i].requests) = 2
        /\ inv.procs[j].pc = "done"
        /\ inv.sessions[inv.procs[j].session].total_tokens = Some(max_context)

C39_SseEndsWithDone ==
    /\ [](LET DataEvents == [k \in 1..Len(sse.delivered) |->
                                 "data: " \o sse.delivered[k] \o "\n\n"]
          IN  \/ sse.emitted = DataEvents /\ sse.pc \in {"idle", "created", "streaming"}
              \/ sse.emitted = Append(DataEvents, "event: done\ndata:\n\n")
                    /\ sse.pc \in {"done", "closed"})
    /\ [][(sse.emitted # <<>> /\ sse.emitted[Len(sse.emitted)] = "event: done\ndata:\n\n")
             => sse'.emitted = sse.emitted]_vars
    /\ (sse.pc = "created") ~>
          (/\ sse.pc = "closed"
           /\ sse.emitted # <<>>
           /\ sse.emitted[Len(sse.emitted)] = "event: done\ndata:\n\n")

\* The provider raised after a text increment had been delivered: one data
\* event, then the done event, and the generator has returned.
C39_Witness ==
    /\ sse.pc = "closed"
    /\ sse.raise_at > 0
    /\ sse.raise_at = sse.consumed
    /\ Len(sse.delivered) > 0
    /\ Len(sse.emitted) = Len(sse.delivered) + 1

\* C40: every chunk of the file is emitted after the task has ended without
\* an exception; up to then only single spaces are emitted; and where the
\* task raised, the generator ends with that exception and no chunk of the
\* file is emitted.
C40_FileAfterTask ==
    LET FileBytes == SelectSeq(resp.emitted, LAMBDA e : e.from = "file")
    IN  /\ \A k \in 1..Len(resp.emitted) :
              LET e == resp.emitted[k]
              IN  /\ e.from = "file" => e.task = "done"
                  /\ e.task # "done" => e.from = "keepalive" /\ e.data = " "
        /\ resp.task \in {"none", "running", "raised"} => FileBytes = <<>>
        /\ resp.pc \in {"streaming", "closed"} => resp.task = "done"
        /\ resp.pc = "raised" => resp.task = "raised"
        /\ resp.pc = "closed" =>
              [k \in 1..Len(FileBytes) |-> FileBytes[k].data] = resp.file

\* A task that wrote two chunks and returned while keepalives were emitted:
\* the file has been streamed whole after them.
C40_Witness ==
    /\ resp.pc = "closed"
    /\ Len(resp.file) = 2
    /\ Len(SelectSeq(resp.emitted, LAMBDA e : e.from = "file")) = 2
    /\ Len(resp.emitted) > 3
    /\ resp.emitted[2].task = "running"

====
